---- MODULE Spec2Model ----
(***************************************************************************)
(* Subscription and periodic-reporting engine of the Doma Telegram bot     *)
(* (class SubscriptionService).  The registry (subscriptions and           *)
(* domainWatchers), the report-timer map, the monitoring flag and the      *)
(* runtime's table of armed interval timers are the state; every public    *)
(* method is one action.                                                   *)
(***************************************************************************)
EXTENDS Integers, Sequences, FiniteSets, Bags, TLC

VARIABLES
    subscriptions,      \* this.subscriptions: Map userId -> {domains, preferences}
    domainWatchers,     \* this.domainWatchers: Map domain -> Set of userIds
    isMonitoring,       \* this.isMonitoring
    monitoringInterval, \* this.monitoringInterval: a timer handle, or NoTimer
    reportTimers,       \* this.reportTimers: Map userId -> timer handle
    timers,             \* the runtime's armed interval timers (a bag of handles)
    calls,              \* number of public calls made so far
    ticks,              \* the checkForEvents invocations started so far
    reports,            \* the sendPeriodicReport invocations started so far
    feed,               \* the data the provider holds for each domain
    due                 \* the armed timers whose period has run out

vars == <<subscriptions, domainWatchers, isMonitoring, monitoringInterval,
          reportTimers, timers, calls, ticks, reports, feed, due>>

(***************************************************************************)
(* Inputs and bounds                                                       *)
(***************************************************************************)
\* public calls explored along one behaviour
MaxCalls == 5

\* public calls and timer fires explored along one behaviour that has both
MaxTickEvents == 4

\* subscribe and unsubscribe calls explored around a single tick
MaxOneTickCalls == 4

\* public calls and timer fires explored along one behaviour of the
\* recurring timers
MaxRecurringEvents == 3

\* subscribe, unsubscribe and updatePreferences calls explored around a
\* single tick
MaxAlertsCalls == 3

\* public calls explored along one behaviour that runs one report
MaxReportCalls == 3

\* subscribe and unsubscribe calls and timer fires explored along one
\* behaviour with overlapping callbacks
MaxOverlapEvents == 5

\* report fires of one user followed along one behaviour of SpecFairReports
MaxFairFires == 1

\* subscribe calls explored before a scored report
MaxScoreCalls == 1

\* longest activity list the provider holds for a scored report
MaxScoreActivities == 7

\* longest listing and offer lists the provider holds for a scored report
MaxScoreItems == 2

\* public calls explored along one behaviour that runs one report and
\* changes preferences
MaxPrefsCalls == 3

Users == {42, 7}
Domains == {"a.com", "b.com"}

\* the empty object {} that subscribe takes as its default preferences
EmptyObject == << >>

\* partial preference objects handed to subscribe and updatePreferences
PrefOverrides ==
    { EmptyObject,
      [reportInterval |-> "12h"],
      [reportInterval |-> "45min"],
      [periodicReports |-> FALSE],
      [periodicReports |-> TRUE] }

\* partial preference objects that also touch fields no timer depends on
MergeOverrides ==
    { EmptyObject,
      [priceAlerts |-> FALSE, scoreThreshold |-> 50],
      [reportInterval |-> "12h"],
      [periodicReports |-> FALSE] }

\* what the provider calls of a tick can resolve to: the list the provider
\* builds (two activities, one listing, one offer), or the empty list of its
\* catch
ActivityLists == { << >>, <<"latest", "older">> }
ListingLists == { << >>, <<"listing">> }
OfferLists == { << >>, <<"offer">> }
DomainData == { "data" }

\* the values the call a tick is suspended on can resolve to
ProviderValues(pc) ==
    CASE pc = "getDomainData" -> DomainData
      [] pc = "getDomainActivities" -> ActivityLists
      [] pc = "getDomainListings" -> ListingLists
      [] pc = "getDomainOffers" -> OfferLists

\* partial preference objects handed to updatePreferences while ticks run
TickOverrides == { [priceAlerts |-> FALSE] }

\* interval arguments handed to setReportInterval
IntervalArgs == {"10min", "45min", "constructor"}

(***************************************************************************)
(* Ordered collections: a JS Set or Map keeps its entries in insertion     *)
(* order; a sequence without duplicates models it.                         *)
(***************************************************************************)
Range(s) == {s[i] : i \in 1..Len(s)}

SetHas(s, x) == x \in Range(s)

\* Set.prototype.add without the membership test: what an array push would do
SetAdd_Push(s, x) == Append(s, x)

\* Set.prototype.add: appends unless already present
SetAdd(s, x) == IF SetHas(s, x) THEN s ELSE Append(s, x)

\* Set.prototype.delete
SetDelete(s, x) == SelectSeq(s, LAMBDA y : y # x)

\* Map.prototype.has / get / set / delete on domainWatchers
MapHas(m, k) == \E i \in 1..Len(m) : m[i].key = k

MapGet(m, k) == (CHOOSE i \in 1..Len(m) : m[i].key = k)

MapValue(m, k) == m[MapGet(m, k)].value

MapSet(m, k, v) ==
    IF MapHas(m, k)
    THEN [m EXCEPT ![MapGet(m, k)].value = v]
    ELSE Append(m, [key |-> k, value |-> v])

MapDelete(m, k) == SelectSeq(m, LAMBDA e : e.key # k)

MapKeys(m) == {m[i].key : i \in 1..Len(m)}

(***************************************************************************)
(* Preferences                                                             *)
(***************************************************************************)
DefaultPreferences ==
    [ priceAlerts |-> TRUE,
      expirationAlerts |-> TRUE,
      saleAlerts |-> TRUE,
      transferAlerts |-> TRUE,
      scoreThreshold |-> 80,
      reportInterval |-> "30min",
      periodicReports |-> TRUE ]

\* what getUserSubscriptions returns as preferences for an unknown user
UnknownUserPreferences ==
    [ priceAlerts |-> FALSE,
      expirationAlerts |-> FALSE,
      saleAlerts |-> FALSE,
      transferAlerts |-> FALSE,
      scoreThreshold |-> 80,
      reportInterval |-> "30min",
      periodicReports |-> FALSE ]

\* { ...old, ...partial }: every field of partial replaces the old one
Field(old, partial, f) == IF f \in DOMAIN partial THEN partial[f] ELSE old[f]

MergePreferences(old, partial) ==
    [ priceAlerts |-> Field(old, partial, "priceAlerts"),
      expirationAlerts |-> Field(old, partial, "expirationAlerts"),
      saleAlerts |-> Field(old, partial, "saleAlerts"),
      transferAlerts |-> Field(old, partial, "transferAlerts"),
      scoreThreshold |-> Field(old, partial, "scoreThreshold"),
      reportInterval |-> Field(old, partial, "reportInterval"),
      periodicReports |-> Field(old, partial, "periodicReports") ]

(***************************************************************************)
(* Report intervals and the runtime's interval timers                      *)
(***************************************************************************)
ReportIntervalKeys == {"10min", "30min", "12h", "1day"}

\* names every object inherits from Object.prototype: reportIntervals[k] is
\* truthy for these (a function, or the prototype object for __proto__)
ObjectPrototypeKeys ==
    { "constructor", "toString", "valueOf", "hasOwnProperty",
      "__proto__", "isPrototypeOf", "propertyIsEnumerable", "toLocaleString",
      "__defineGetter__", "__defineSetter__",
      "__lookupGetter__", "__lookupSetter__" }

Undefined == 0 - 1

\* this.reportIntervals[interval], in milliseconds; Undefined stands for
\* every value that is not a number (undefined, or an inherited value)
reportIntervals(interval) ==
    CASE interval = "10min" -> 10 * 60 * 1000
      [] interval = "30min" -> 30 * 60 * 1000
      [] interval = "12h"   -> 12 * 60 * 60 * 1000
      [] interval = "1day"  -> 24 * 60 * 60 * 1000
      [] OTHER -> Undefined

\* !this.reportIntervals[interval] is false exactly for these
HasReportInterval(interval) ==
    interval \in ReportIntervalKeys \cup ObjectPrototypeKeys

\* setInterval coerces a delay that is not a number >= 1 to 1 ms
TimerDelay(ms) == IF ms = Undefined \/ ms < 1 THEN 1 ELSE ms

\* A timer handle is the runtime's Timeout object, modelled by what it holds:
\* the callback (its kind and the userId it closes over) and the delay.
\* NoTimer stands for the null / undefined handle.
NoTimer == [kind |-> "none", userId |-> 0, delay |-> 0]

Timeout(kind, userId, ms) ==
    [kind |-> kind, userId |-> userId, delay |-> TimerDelay(ms)]

Restrict(f, S) == [x \in S |-> f[x]]

\* setInterval(callback, ms): one more armed timer
SetInterval(tm, h) == tm (+) SetToBag({h})

\* clearInterval(handle): the armed timer with this handle is disarmed
ClearInterval(tm, h) == tm (-) SetToBag({h})

(***************************************************************************)
(* The engine state as one value: the fields of a SubscriptionService.     *)
(* Every method below maps an engine state (and its arguments) to the      *)
(* engine state it leaves, or to that state and the value it returns.      *)
(* timerCalls is not a field of the service: it lists, in order, the       *)
(* setInterval and clearInterval calls the running method has made, and    *)
(* is empty between calls.                                                 *)
(***************************************************************************)
Engine ==
    [ subscriptions |-> subscriptions,
      domainWatchers |-> domainWatchers,
      isMonitoring |-> isMonitoring,
      monitoringInterval |-> monitoringInterval,
      reportTimers |-> reportTimers,
      timers |-> timers,
      timerCalls |-> << >> ]

\* a freshly constructed SubscriptionService
NewEngine ==
    [ subscriptions |-> << >>,
      domainWatchers |-> << >>,
      isMonitoring |-> FALSE,
      monitoringInterval |-> NoTimer,
      reportTimers |-> << >>,
      timers |-> EmptyBag,
      timerCalls |-> << >> ]

\* a returned { success, message }; the message is kept as its literal text
\* followed by the values interpolated into it
Result(ok, msg) == [success |-> ok, message |-> msg]

\* what a public method leaves behind: the engine state, the value returned,
\* and the timer calls it made
Return(S, ok, msg) ==
    [ state |-> [S EXCEPT !.timerCalls = << >>],
      result |-> Result(ok, msg),
      timerCalls |-> S.timerCalls ]

\* the engine after the runtime call clearInterval(h) / setInterval(.., ms)
DoClearInterval(S, h) ==
    [S EXCEPT !.timers = ClearInterval(@, h),
              !.timerCalls = Append(@, <<"clearInterval", h>>)]

DoSetInterval(S, h) ==
    [S EXCEPT !.timers = SetInterval(@, h),
              !.timerCalls = Append(@, <<"setInterval", h>>)]

stopPeriodicReports(S, userId) ==
    IF userId \in DOMAIN S.reportTimers
    THEN [DoClearInterval(S, S.reportTimers[userId]) EXCEPT
            !.reportTimers = Restrict(@, DOMAIN @ \ {userId})]
    ELSE S

\* startPeriodicReports without the stopPeriodicReports call of line 1024
startPeriodicReports_NoStop(S, userId) ==
    IF userId \notin DOMAIN S.subscriptions THEN S
    ELSE LET userSub == S.subscriptions[userId]
             interval == IF userSub.preferences.reportInterval = ""
                         THEN "30min"
                         ELSE userSub.preferences.reportInterval
             timer == Timeout("report", userId, reportIntervals(interval))
         IN  IF ~userSub.preferences.periodicReports THEN S
             ELSE [DoSetInterval(S, timer) EXCEPT
                     !.reportTimers = (userId :> timer) @@ @]

startPeriodicReports(S, userId) ==
    LET S1 == stopPeriodicReports(S, userId)
    IN  IF userId \notin DOMAIN S1.subscriptions THEN S1
        ELSE LET userSub == S1.subscriptions[userId]
                 interval == IF userSub.preferences.reportInterval = ""
                             THEN "30min"
                             ELSE userSub.preferences.reportInterval
                 intervalMs == reportIntervals(interval)
                 timer == Timeout("report", userId, intervalMs)
             IN  IF ~userSub.preferences.periodicReports THEN S1
                 ELSE [DoSetInterval(S1, timer) EXCEPT
                         !.reportTimers = (userId :> timer) @@ @]

eventCheckInterval == 30000

\* startEventMonitoring without the "already monitoring" return of line 842
startEventMonitoring_NoGuard(S) ==
    LET timer == Timeout("event", 0, eventCheckInterval)
    IN  [DoSetInterval(S, timer) EXCEPT
            !.isMonitoring = TRUE,
            !.monitoringInterval = timer]

startEventMonitoring(S) ==
    IF S.isMonitoring THEN S
    ELSE LET timer == Timeout("event", 0, eventCheckInterval)
         IN  [DoSetInterval(S, timer) EXCEPT
                 !.isMonitoring = TRUE,
                 !.monitoringInterval = timer]

\* stopEventMonitoring lowering the flag without clearing the timer
stopEventMonitoring_KeepsTimer(S) == [S EXCEPT !.isMonitoring = FALSE]

stopEventMonitoring(S) ==
    LET S1 == IF S.monitoringInterval # NoTimer
              THEN [DoClearInterval(S, S.monitoringInterval) EXCEPT
                      !.monitoringInterval = NoTimer]
              ELSE S
    IN  [S1 EXCEPT !.isMonitoring = FALSE]

\* subscribe's record part merging the overrides into the defaults even for
\* a user who already has a record
SubscribeRecord_ResetsPreferences(subs, userId, domain, preferences) ==
    LET created == IF userId \in DOMAIN subs THEN subs
                   ELSE (userId :> [domains |-> << >>,
                                    preferences |-> DefaultPreferences]) @@ subs
        userSub == created[userId]
    IN  [created EXCEPT ![userId] =
            [domains |-> SetAdd(userSub.domains, domain),
             preferences |-> MergePreferences(DefaultPreferences, preferences)]]

\* subscribe, lines 709-730: the user's record after the call
SubscribeRecord(subs, userId, domain, preferences) ==
    LET created == IF userId \in DOMAIN subs THEN subs
                   ELSE (userId :> [domains |-> << >>,
                                    preferences |-> DefaultPreferences]) @@ subs
        userSub == created[userId]
    IN  [created EXCEPT ![userId] =
            [domains |-> SetAdd(userSub.domains, domain),
             preferences |-> MergePreferences(userSub.preferences, preferences)]]

\* subscribe's index part adding the user only when the domain entry is new
SubscribeWatchers_NewDomainOnly(dw, userId, domain) ==
    IF ~MapHas(dw, domain) THEN MapSet(dw, domain, <<userId>>) ELSE dw

\* subscribe, lines 732-736: the watch index after the call
SubscribeWatchers(dw, userId, domain) ==
    LET dw1 == IF ~MapHas(dw, domain) THEN MapSet(dw, domain, << >>) ELSE dw
    IN  MapSet(dw1, domain, SetAdd(MapValue(dw1, domain), userId))

subscribe(S, userId, domain, preferences) ==
    LET S1 == [S EXCEPT
                 !.subscriptions = SubscribeRecord(@, userId, domain, preferences),
                 !.domainWatchers = SubscribeWatchers(@, userId, domain)]
        S2 == IF ~S1.isMonitoring THEN startEventMonitoring(S1) ELSE S1
        S3 == startPeriodicReports(S2, userId)
    IN  Return(S3, TRUE, <<"Successfully subscribed to ", domain>>)

\* unsubscribe's index part forgetting to remove the user
UnsubscribeWatchers_KeepsUser(dw, userId, domain) == dw

\* unsubscribe's index part without the clean-up of an emptied watcher set
UnsubscribeWatchers_NoCleanup(dw, userId, domain) ==
    IF MapHas(dw, domain)
    THEN MapSet(dw, domain, SetDelete(MapValue(dw, domain), userId))
    ELSE dw

\* unsubscribe's index part dropping the whole domain entry
UnsubscribeWatchers_DropsEntry(dw, userId, domain) == MapDelete(dw, domain)

\* unsubscribe, lines 775-783: the watch index after the call
UnsubscribeWatchers(dw, userId, domain) ==
    IF MapHas(dw, domain)
    THEN LET rest == SetDelete(MapValue(dw, domain), userId)
         IN  IF Len(rest) = 0 THEN MapDelete(dw, domain)
             ELSE MapSet(dw, domain, rest)
    ELSE dw

\* unsubscribe that deletes the record of a user left with no domain
unsubscribe_DeletesEmptyRecord(S, userId, domain) ==
    IF userId \notin DOMAIN S.subscriptions
    THEN Return(S, FALSE, <<"No active subscriptions found">>)
    ELSE IF ~SetHas(S.subscriptions[userId].domains, domain)
    THEN Return(S, FALSE, <<"Not subscribed to ", domain>>)
    ELSE LET S1 == [S EXCEPT
                      !.subscriptions[userId].domains = SetDelete(@, domain),
                      !.domainWatchers = UnsubscribeWatchers(@, userId, domain)]
         IN  Return(IF Len(S1.subscriptions[userId].domains) = 0
                    THEN [S1 EXCEPT !.subscriptions =
                            Restrict(@, DOMAIN @ \ {userId})]
                    ELSE S1,
                    TRUE, <<"Successfully unsubscribed from ", domain>>)

\* unsubscribe that stops event monitoring when no domain is watched any more
unsubscribe_StopsIdleMonitoring(S, userId, domain) ==
    IF userId \notin DOMAIN S.subscriptions
    THEN Return(S, FALSE, <<"No active subscriptions found">>)
    ELSE IF ~SetHas(S.subscriptions[userId].domains, domain)
    THEN Return(S, FALSE, <<"Not subscribed to ", domain>>)
    ELSE LET S1 == [S EXCEPT
                      !.subscriptions[userId].domains = SetDelete(@, domain),
                      !.domainWatchers = UnsubscribeWatchers(@, userId, domain)]
         IN  Return(IF Len(S1.domainWatchers) = 0
                    THEN stopEventMonitoring(S1) ELSE S1,
                    TRUE, <<"Successfully unsubscribed from ", domain>>)

\* unsubscribe without the "not subscribed" test of lines 768-770
unsubscribe_NoMembershipTest(S, userId, domain) ==
    IF userId \notin DOMAIN S.subscriptions
    THEN Return(S, FALSE, <<"No active subscriptions found">>)
    ELSE Return([S EXCEPT
                    !.subscriptions[userId].domains = SetDelete(@, domain),
                    !.domainWatchers = UnsubscribeWatchers(@, userId, domain)],
                TRUE, <<"Successfully unsubscribed from ", domain>>)

\* unsubscribe that also stops the reports of a user left with no domain
unsubscribe_StopsReports(S, userId, domain) ==
    IF userId \notin DOMAIN S.subscriptions
    THEN Return(S, FALSE, <<"No active subscriptions found">>)
    ELSE IF ~SetHas(S.subscriptions[userId].domains, domain)
    THEN Return(S, FALSE, <<"Not subscribed to ", domain>>)
    ELSE LET S1 == [S EXCEPT
                      !.subscriptions[userId].domains = SetDelete(@, domain),
                      !.domainWatchers = UnsubscribeWatchers(@, userId, domain)]
         IN  Return(IF Len(S1.subscriptions[userId].domains) = 0
                    THEN stopPeriodicReports(S1, userId) ELSE S1,
                    TRUE, <<"Successfully unsubscribed from ", domain>>)

\* unsubscribe that removes the domain from the user's record and leaves
\* the user in the domain's watcher set
unsubscribe_LeavesWatcher(S, userId, domain) ==
    IF userId \notin DOMAIN S.subscriptions
    THEN Return(S, FALSE, <<"No active subscriptions found">>)
    ELSE IF ~SetHas(S.subscriptions[userId].domains, domain)
    THEN Return(S, FALSE, <<"Not subscribed to ", domain>>)
    ELSE Return([S EXCEPT
                    !.subscriptions[userId].domains = SetDelete(@, domain)],
                TRUE, <<"Successfully unsubscribed from ", domain>>)

unsubscribe(S, userId, domain) ==
    IF userId \notin DOMAIN S.subscriptions
    THEN Return(S, FALSE, <<"No active subscriptions found">>)
    ELSE IF ~SetHas(S.subscriptions[userId].domains, domain)
    THEN Return(S, FALSE, <<"Not subscribed to ", domain>>)
    ELSE Return([S EXCEPT
                    !.subscriptions[userId].domains = SetDelete(@, domain),
                    !.domainWatchers = UnsubscribeWatchers(@, userId, domain)],
                TRUE, <<"Successfully unsubscribed from ", domain>>)

getUserSubscriptions(S, userId) ==
    IF userId \notin DOMAIN S.subscriptions
    THEN [domains |-> << >>, preferences |-> UnknownUserPreferences]
    ELSE [domains |-> S.subscriptions[userId].domains,
          preferences |-> S.subscriptions[userId].preferences]

updatePreferences(S, userId, preferences) ==
    IF userId \notin DOMAIN S.subscriptions
    THEN Return(S, FALSE, <<"No active subscriptions found">>)
    ELSE Return([S EXCEPT !.subscriptions[userId].preferences =
                               MergePreferences(@, preferences)],
                TRUE, <<"Preferences updated successfully">>)

\* setReportInterval leaving the timer alone when the interval is the one
\* already stored
setReportInterval_KeepsTimerIfSame(S, userId, interval) ==
    IF ~HasReportInterval(interval)
    THEN Return(S, FALSE, <<"Invalid report interval. Use: 10min, 30min, 12h, 1day">>)
    ELSE IF userId \notin DOMAIN S.subscriptions
    THEN Return(S, FALSE, <<"No active subscriptions found">>)
    ELSE IF S.subscriptions[userId].preferences.reportInterval = interval
    THEN Return(S, TRUE, <<"Report interval set to ", interval>>)
    ELSE LET S1 == [S EXCEPT
                      !.subscriptions[userId].preferences.reportInterval = interval]
         IN  Return(startPeriodicReports(S1, userId), TRUE,
                    <<"Report interval set to ", interval>>)

setReportInterval(S, userId, interval) ==
    IF ~HasReportInterval(interval)
    THEN Return(S, FALSE, <<"Invalid report interval. Use: 10min, 30min, 12h, 1day">>)
    ELSE IF userId \notin DOMAIN S.subscriptions
    THEN Return(S, FALSE, <<"No active subscriptions found">>)
    ELSE LET S1 == [S EXCEPT
                      !.subscriptions[userId].preferences.reportInterval = interval]
         IN  Return(startPeriodicReports(S1, userId), TRUE,
                    <<"Report interval set to ", interval>>)

\* togglePeriodicReports without the record test of lines 1146-1149
togglePeriodicReports_NoRecordTest(S, userId, enabled) ==
    IF userId \notin DOMAIN S.subscriptions
    THEN Return(IF enabled THEN startPeriodicReports(S, userId)
                ELSE stopPeriodicReports(S, userId),
                TRUE, <<"Periodic reports ", IF enabled THEN "enabled" ELSE "disabled">>)
    ELSE LET S1 == [S EXCEPT
                      !.subscriptions[userId].preferences.periodicReports = enabled]
         IN  IF enabled
             THEN Return(startPeriodicReports(S1, userId), TRUE,
                         <<"Periodic reports enabled">>)
             ELSE Return(stopPeriodicReports(S1, userId), TRUE,
                         <<"Periodic reports disabled">>)

togglePeriodicReports(S, userId, enabled) ==
    IF userId \notin DOMAIN S.subscriptions
    THEN Return(S, FALSE, <<"No active subscriptions found">>)
    ELSE LET S1 == [S EXCEPT
                      !.subscriptions[userId].preferences.periodicReports = enabled]
         IN  IF enabled
             THEN Return(startPeriodicReports(S1, userId), TRUE,
                         <<"Periodic reports enabled">>)
             ELSE Return(stopPeriodicReports(S1, userId), TRUE,
                         <<"Periodic reports disabled">>)

\* a shutdown that also cancels every user's report timer
RECURSIVE StopAllReports(_, _)
StopAllReports(S, users) ==
    IF users = {} THEN S
    ELSE LET u == CHOOSE x \in users : TRUE
         IN  StopAllReports(stopPeriodicReports(S, u), users \ {u})

shutdown_StopsReports(S) ==
    StopAllReports(stopEventMonitoring(S), DOMAIN S.reportTimers)

\* DomaTelegramBot.shutdown, src/index.js lines 446-451: the engine after it
shutdown(S) == stopEventMonitoring(S)

getStats(S) ==
    [ totalUsers |-> Cardinality(DOMAIN S.subscriptions),
      totalDomains |-> Len(S.domainWatchers),
      isMonitoring |-> S.isMonitoring,
      activeReportTimers |-> Cardinality(DOMAIN S.reportTimers) ]

(***************************************************************************)
(* The state machine: one action per public method                         *)
(***************************************************************************)
\* the provider's data is left open: each provider call may answer anything
NoFeed == << >>

Init ==
    /\ subscriptions = NewEngine.subscriptions
    /\ domainWatchers = NewEngine.domainWatchers
    /\ isMonitoring = NewEngine.isMonitoring
    /\ monitoringInterval = NewEngine.monitoringInterval
    /\ reportTimers = NewEngine.reportTimers
    /\ timers = NewEngine.timers
    /\ calls = 0
    /\ ticks = << >>
    /\ reports = << >>
    /\ feed = NoFeed
    /\ due = {}

Subscribe ==
    \E u \in Users, d \in Domains, p \in PrefOverrides :
        LET S == subscribe(Engine, u, d, p).state
        IN  /\ calls < MaxCalls
            /\ calls' = calls + 1
            /\ subscriptions' = S.subscriptions
            /\ domainWatchers' = S.domainWatchers
            /\ isMonitoring' = S.isMonitoring
            /\ monitoringInterval' = S.monitoringInterval
            /\ reportTimers' = S.reportTimers
            /\ timers' = S.timers
            /\ UNCHANGED <<ticks, reports, feed, due>>

Unsubscribe ==
    \E u \in Users, d \in Domains :
        LET S == unsubscribe(Engine, u, d).state
        IN  /\ calls < MaxCalls
            /\ calls' = calls + 1
            /\ subscriptions' = S.subscriptions
            /\ domainWatchers' = S.domainWatchers
            /\ isMonitoring' = S.isMonitoring
            /\ monitoringInterval' = S.monitoringInterval
            /\ reportTimers' = S.reportTimers
            /\ timers' = S.timers
            /\ UNCHANGED <<ticks, reports, feed, due>>

UpdatePreferences ==
    \E u \in Users, p \in PrefOverrides :
        LET S == updatePreferences(Engine, u, p).state
        IN  /\ calls < MaxCalls
            /\ calls' = calls + 1
            /\ subscriptions' = S.subscriptions
            /\ domainWatchers' = S.domainWatchers
            /\ isMonitoring' = S.isMonitoring
            /\ monitoringInterval' = S.monitoringInterval
            /\ reportTimers' = S.reportTimers
            /\ timers' = S.timers
            /\ UNCHANGED <<ticks, reports, feed, due>>

SetReportInterval ==
    \E u \in Users, i \in IntervalArgs :
        LET S == setReportInterval(Engine, u, i).state
        IN  /\ calls < MaxCalls
            /\ calls' = calls + 1
            /\ subscriptions' = S.subscriptions
            /\ domainWatchers' = S.domainWatchers
            /\ isMonitoring' = S.isMonitoring
            /\ monitoringInterval' = S.monitoringInterval
            /\ reportTimers' = S.reportTimers
            /\ timers' = S.timers
            /\ UNCHANGED <<ticks, reports, feed, due>>

TogglePeriodicReports ==
    \E u \in Users, e \in BOOLEAN :
        LET S == togglePeriodicReports(Engine, u, e).state
        IN  /\ calls < MaxCalls
            /\ calls' = calls + 1
            /\ subscriptions' = S.subscriptions
            /\ domainWatchers' = S.domainWatchers
            /\ isMonitoring' = S.isMonitoring
            /\ monitoringInterval' = S.monitoringInterval
            /\ reportTimers' = S.reportTimers
            /\ timers' = S.timers
            /\ UNCHANGED <<ticks, reports, feed, due>>

StartEventMonitoring ==
    LET S == startEventMonitoring(Engine)
    IN  /\ calls < MaxCalls
        /\ calls' = calls + 1
        /\ subscriptions' = S.subscriptions
        /\ domainWatchers' = S.domainWatchers
        /\ isMonitoring' = S.isMonitoring
        /\ monitoringInterval' = S.monitoringInterval
        /\ reportTimers' = S.reportTimers
        /\ timers' = S.timers
        /\ UNCHANGED <<ticks, reports, feed, due>>

StopEventMonitoring ==
    LET S == stopEventMonitoring(Engine)
    IN  /\ calls < MaxCalls
        /\ calls' = calls + 1
        /\ subscriptions' = S.subscriptions
        /\ domainWatchers' = S.domainWatchers
        /\ isMonitoring' = S.isMonitoring
        /\ monitoringInterval' = S.monitoringInterval
        /\ reportTimers' = S.reportTimers
        /\ timers' = S.timers
        /\ UNCHANGED <<ticks, reports, feed, due>>

Shutdown ==
    LET S == shutdown(Engine)
    IN  /\ calls < MaxCalls
        /\ calls' = calls + 1
        /\ subscriptions' = S.subscriptions
        /\ domainWatchers' = S.domainWatchers
        /\ isMonitoring' = S.isMonitoring
        /\ monitoringInterval' = S.monitoringInterval
        /\ reportTimers' = S.reportTimers
        /\ timers' = S.timers
        /\ UNCHANGED <<ticks, reports, feed, due>>

Next ==
    \/ Subscribe
    \/ Unsubscribe
    \/ UpdatePreferences
    \/ SetReportInterval
    \/ TogglePeriodicReports
    \/ StartEventMonitoring
    \/ StopEventMonitoring
    \/ Shutdown

Spec == Init /\ [][Next]_vars

(***************************************************************************)
(* The same service driven with the overrides of MergeOverrides            *)
(***************************************************************************)
SubscribeMerge ==
    \E u \in Users, d \in Domains, p \in MergeOverrides :
        LET S == subscribe(Engine, u, d, p).state
        IN  /\ calls < MaxCalls
            /\ calls' = calls + 1
            /\ subscriptions' = S.subscriptions
            /\ domainWatchers' = S.domainWatchers
            /\ isMonitoring' = S.isMonitoring
            /\ monitoringInterval' = S.monitoringInterval
            /\ reportTimers' = S.reportTimers
            /\ timers' = S.timers
            /\ UNCHANGED <<ticks, reports, feed, due>>

UpdatePreferencesMerge ==
    \E u \in Users, p \in MergeOverrides :
        LET S == updatePreferences(Engine, u, p).state
        IN  /\ calls < MaxCalls
            /\ calls' = calls + 1
            /\ subscriptions' = S.subscriptions
            /\ domainWatchers' = S.domainWatchers
            /\ isMonitoring' = S.isMonitoring
            /\ monitoringInterval' = S.monitoringInterval
            /\ reportTimers' = S.reportTimers
            /\ timers' = S.timers
            /\ UNCHANGED <<ticks, reports, feed, due>>

NextMerge == SubscribeMerge \/ UpdatePreferencesMerge \/ Unsubscribe

SpecMerge == Init /\ [][NextMerge]_vars

(***************************************************************************)
(* The event tick: checkForEvents, checkDomainEvents, detectNewEvents      *)
(*                                                                         *)
(* A tick is one invocation of checkForEvents.  It is suspended at every   *)
(* await; pc names the call it is waiting for.  at is the position of its  *)
(* Map iterator in domainWatchers, upos the position of its Set iterator   *)
(* in userIds.  userIds is the Set object the iterator handed out: the     *)
(* live watcher set of the entry, or, once that entry has been deleted     *)
(* from the Map, a detached and empty Set.  results and alerts record what *)
(* the tick has done: one result per finished checkDomainEvents, one alert *)
(* per sendEventAlert invocation.  visit numbers the checkDomainEvents     *)
(* invocation an alert belongs to, and watched, where a specification      *)
(* records it, is the list of domains that were in the watch index when    *)
(* the tick started; neither is read by the tick.                          *)
(***************************************************************************)
FetchStages ==
    {"getDomainData", "getDomainActivities", "getDomainListings", "getDomainOffers"}

NewTick ==
    [ pc |-> "start", at |-> 0, domain |-> "", detached |-> FALSE,
      activities |-> << >>, listings |-> << >>, events |-> << >>,
      upos |-> 0, results |-> << >>, alerts |-> << >>, watched |-> << >> ]

\* the for-of over domainWatchers stopping at the first provider failure
nextDomain_Aborts(S, t) ==
    IF t.at < Len(S.domainWatchers)
       /\ \A i \in 1..Len(t.results) : t.results[i].outcome # "threw"
    THEN [t EXCEPT !.at = @ + 1,
                   !.domain = S.domainWatchers[t.at + 1].key,
                   !.detached = FALSE,
                   !.pc = "getDomainData",
                   !.activities = << >>, !.listings = << >>,
                   !.events = << >>, !.upos = 0]
    ELSE [t EXCEPT !.pc = "done", !.domain = "", !.detached = FALSE,
                   !.activities = << >>, !.listings = << >>,
                   !.events = << >>, !.upos = 0]

\* the for-of over domainWatchers, lines 869-871: the iterator moves to the
\* next entry and checkDomainEvents runs up to its first await, or the loop
\* ends
nextDomain(S, t) ==
    IF t.at < Len(S.domainWatchers)
    THEN [t EXCEPT !.at = @ + 1,
                   !.domain = S.domainWatchers[t.at + 1].key,
                   !.detached = FALSE,
                   !.pc = "getDomainData",
                   !.activities = << >>, !.listings = << >>,
                   !.events = << >>, !.upos = 0]
    ELSE [t EXCEPT !.pc = "done", !.domain = "", !.detached = FALSE,
                   !.activities = << >>, !.listings = << >>,
                   !.events = << >>, !.upos = 0]

checkForEvents(S) == nextDomain(S, NewTick)

\* the Set of userIds checkDomainEvents was called with
userIdsOf(S, t) ==
    IF t.detached THEN << >> ELSE MapValue(S.domainWatchers, t.domain)

\* checkDomainEvents has finished for the tick's domain: its promise is
\* settled, and checkForEvents stays suspended on the await of line 870
\* until the runtime resumes it
finishDomain(S, t, outcome) ==
    [t EXCEPT !.results = Append(@, [domain |-> t.domain, outcome |-> outcome]),
              !.pc = "checkDomainEvents",
              !.domain = "", !.detached = FALSE,
              !.activities = << >>, !.listings = << >>,
              !.events = << >>, !.upos = 0]

\* checkForEvents, line 870: the awaited checkDomainEvents has resolved and
\* the for-of over domainWatchers goes on
domainReturns(S, t) == nextDomain(S, t)

\* an alert loop that ends at the first user who has turned price alerts off
nextAlert_StopsAtMutedUser(S, t) ==
    LET userIds == userIdsOf(S, t)
    IN  IF t.upos < Len(userIds)
           /\ S.subscriptions[userIds[t.upos + 1]].preferences.priceAlerts
        THEN [t EXCEPT !.upos = @ + 1,
                       !.pc = "sendEventAlert",
                       !.alerts = Append(@, [userId |-> userIds[t.upos + 1],
                                             domain |-> t.domain,
                                             events |-> t.events,
                                             visit |-> Len(t.results) + 1])]
        ELSE finishDomain(S, t, "alerted")

\* the for-of over userIds, lines 895-897: sendEventAlert is invoked for the
\* next user, or the loop ends
nextAlert(S, t) ==
    LET userIds == userIdsOf(S, t)
    IN  IF t.upos < Len(userIds)
        THEN [t EXCEPT !.upos = @ + 1,
                       !.pc = "sendEventAlert",
                       !.alerts = Append(@, [userId |-> userIds[t.upos + 1],
                                             domain |-> t.domain,
                                             events |-> t.events,
                                             visit |-> Len(t.results) + 1])]
        ELSE finishDomain(S, t, "alerted")

\* event detection that stops at the first kind of event it finds
detectNewEvents_FirstKindOnly(activities, listings, offers) ==
    IF Len(activities) > 0
    THEN <<[type |-> "ACTIVITY", data |-> activities[1]]>>
    ELSE IF Len(listings) > 0
    THEN <<[type |-> "LISTING", data |-> listings[1]]>>
    ELSE IF Len(offers) > 0
    THEN <<[type |-> "OFFER", data |-> offers[1]]>>
    ELSE << >>

\* detectNewEvents, lines 913-953, with isNewActivity, isNewListing and
\* isNewOffer (lines 958-980) returning true
detectNewEvents(activities, listings, offers) ==
    (IF Len(activities) > 0
     THEN <<[type |-> "ACTIVITY", data |-> activities[1]]>> ELSE << >>)
    \o (IF Len(listings) > 0
        THEN <<[type |-> "LISTING", data |-> listings[1]]>> ELSE << >>)
    \o (IF Len(offers) > 0
        THEN <<[type |-> "OFFER", data |-> offers[1]]>> ELSE << >>)

\* checkDomainEvents, lines 884-898: the awaited provider call resolves
providerReturns(S, t, value) ==
    CASE t.pc = "getDomainData" -> [t EXCEPT !.pc = "getDomainActivities"]
      [] t.pc = "getDomainActivities" ->
            [t EXCEPT !.activities = value, !.pc = "getDomainListings"]
      [] t.pc = "getDomainListings" ->
            [t EXCEPT !.listings = value, !.pc = "getDomainOffers"]
      [] t.pc = "getDomainOffers" ->
            LET newEvents == detectNewEvents(t.activities, t.listings, value)
                t1 == [t EXCEPT !.events = newEvents]
            IN  IF Len(newEvents) > 0 THEN nextAlert(S, t1)
                ELSE finishDomain(S, t1, "quiet")

\* checkDomainEvents, lines 900-902: the awaited provider call rejects
providerThrows(S, t) == finishDomain(S, t, "threw")

\* checkDomainEvents, line 896: the awaited sendEventAlert resolves
alertReturns(S, t) == nextAlert(S, t)

\* what a suspended tick's iterators point at after unsubscribe has turned
\* the engine S into S2: deleting a Map entry or a Set member at or before
\* an iterator's position moves that position back by one, and deleting the
\* entry the tick is working on leaves it with a detached, empty Set
tickAfterUnsubscribe(S, S2, t, userId, domain) ==
    IF t.pc = "done" \/ S2.domainWatchers = S.domainWatchers THEN t
    ELSE IF ~MapHas(S2.domainWatchers, domain)
    THEN LET mine == t.domain = domain /\ ~t.detached
         IN  [t EXCEPT !.at = IF MapGet(S.domainWatchers, domain) <= @
                              THEN @ - 1 ELSE @,
                       !.detached = @ \/ mine,
                       !.upos = IF mine THEN 0 ELSE @]
    ELSE IF t.domain = domain /\ ~t.detached
    THEN LET userIds == MapValue(S.domainWatchers, domain)
             k == CHOOSE i \in 1..Len(userIds) : userIds[i] = userId
         IN  [t EXCEPT !.upos = IF k <= @ THEN @ - 1 ELSE @]
    ELSE t

\* getUserSubscriptions answering by creating the record it did not find
getUserSubscriptionsCall_CreatesRecord(S, userId) ==
    [ state |-> IF userId \in DOMAIN S.subscriptions THEN S
                ELSE [S EXCEPT !.subscriptions =
                        (userId :> [domains |-> << >>,
                                    preferences |-> UnknownUserPreferences]) @@ @],
      result |-> getUserSubscriptions(S, userId) ]

\* a call of getUserSubscriptions / getStats: the engine it leaves and the
\* value it returns
getUserSubscriptionsCall(S, userId) ==
    [ state |-> S, result |-> getUserSubscriptions(S, userId) ]

getStatsCall(S) == [ state |-> S, result |-> getStats(S) ]

(***************************************************************************)
(* The steps of a tick: the call it is suspended on returns or throws      *)
(***************************************************************************)
EngineBecomes(S) ==
    /\ subscriptions' = S.subscriptions
    /\ domainWatchers' = S.domainWatchers
    /\ isMonitoring' = S.isMonitoring
    /\ monitoringInterval' = S.monitoringInterval
    /\ reportTimers' = S.reportTimers
    /\ timers' = S.timers

EngineUnchanged ==
    UNCHANGED <<subscriptions, domainWatchers, isMonitoring,
                monitoringInterval, reportTimers, timers>>

ProviderReturns ==
    \E i \in DOMAIN ticks :
      \E value \in IF ticks[i].pc \in FetchStages
                    THEN ProviderValues(ticks[i].pc) ELSE {} :
        /\ UNCHANGED <<reports, feed, due>>
        /\ ticks' = [ticks EXCEPT ![i] = providerReturns(Engine, @, value)]
        /\ EngineUnchanged
        /\ UNCHANGED calls

ProviderThrows ==
    \E i \in DOMAIN ticks :
        /\ ticks[i].pc \in FetchStages
        /\ UNCHANGED <<reports, feed, due>>
        /\ ticks' = [ticks EXCEPT ![i] = providerThrows(Engine, @)]
        /\ EngineUnchanged
        /\ UNCHANGED calls

AlertReturns ==
    \E i \in DOMAIN ticks :
        /\ ticks[i].pc = "sendEventAlert"
        /\ UNCHANGED <<reports, feed, due>>
        /\ ticks' = [ticks EXCEPT ![i] = alertReturns(Engine, @)]
        /\ EngineUnchanged
        /\ UNCHANGED calls

\* checkForEvents resumes after a finished checkDomainEvents, line 870
DomainReturns ==
    \E i \in DOMAIN ticks :
        /\ ticks[i].pc = "checkDomainEvents"
        /\ UNCHANGED <<reports, feed, due>>
        /\ ticks' = [ticks EXCEPT ![i] = domainReturns(Engine, @)]
        /\ EngineUnchanged
        /\ UNCHANGED calls

(***************************************************************************)
(* A single tick of the event timer, with subscribe and unsubscribe calls  *)
(* before it, after it and at each of its suspension points                *)
(***************************************************************************)
OneTickSubscribe ==
    \E u \in Users, d \in Domains :
        /\ calls < MaxOneTickCalls
        /\ calls' = calls + 1
        /\ EngineBecomes(subscribe(Engine, u, d, EmptyObject).state)
        /\ UNCHANGED <<ticks, reports, feed, due>>

OneTickUnsubscribe ==
    \E u \in Users, d \in Domains :
        LET S2 == unsubscribe(Engine, u, d).state
        IN  /\ calls < MaxOneTickCalls
            /\ calls' = calls + 1
            /\ EngineBecomes(S2)
            /\ UNCHANGED <<reports, feed, due>>
            /\ ticks' = [i \in DOMAIN ticks |->
                            tickAfterUnsubscribe(Engine, S2, ticks[i], u, d)]

\* the keys of the watch index, in iteration order
WatchedDomains(S) ==
    [i \in 1..Len(S.domainWatchers) |-> S.domainWatchers[i].key]

\* the event timer fires for the first time: lines 846-848
FirstTimerFires ==
    /\ ticks = << >>
    /\ monitoringInterval # NoTimer
    /\ BagIn(monitoringInterval, timers)
    /\ UNCHANGED <<reports, feed, due>>
    /\ ticks' = <<[checkForEvents(Engine) EXCEPT !.watched = WatchedDomains(Engine)]>>
    /\ EngineUnchanged
    /\ UNCHANGED calls

NextOneTick ==
    \/ OneTickSubscribe
    \/ OneTickUnsubscribe
    \/ FirstTimerFires
    \/ ProviderReturns
    \/ ProviderThrows
    \/ AlertReturns
    \/ DomainReturns

SpecOneTick == Init /\ [][NextOneTick]_vars

(***************************************************************************)
(* A single tick of the event timer among calls that change who watches    *)
(* what and what the watchers' preferences are                             *)
(***************************************************************************)
AlertsSubscribe ==
    \E u \in Users, d \in Domains :
        /\ calls < MaxAlertsCalls
        /\ calls' = calls + 1
        /\ EngineBecomes(subscribe(Engine, u, d, EmptyObject).state)
        /\ UNCHANGED <<ticks, reports, feed, due>>

AlertsUnsubscribe ==
    \E u \in Users, d \in Domains :
        LET S2 == unsubscribe(Engine, u, d).state
        IN  /\ calls < MaxAlertsCalls
            /\ calls' = calls + 1
            /\ EngineBecomes(S2)
            /\ UNCHANGED <<reports, feed, due>>
            /\ ticks' = [i \in DOMAIN ticks |->
                            tickAfterUnsubscribe(Engine, S2, ticks[i], u, d)]

AlertsUpdatePreferences ==
    \E u \in Users, p \in TickOverrides :
        /\ calls < MaxAlertsCalls
        /\ calls' = calls + 1
        /\ EngineBecomes(updatePreferences(Engine, u, p).state)
        /\ UNCHANGED <<ticks, reports, feed, due>>

NextAlerts ==
    \/ AlertsSubscribe
    \/ AlertsUnsubscribe
    \/ AlertsUpdatePreferences
    \/ FirstTimerFires
    \/ ProviderReturns
    \/ ProviderThrows
    \/ AlertReturns
    \/ DomainReturns

SpecAlerts == Init /\ [][NextAlerts]_vars

(***************************************************************************)
(* A single tick among subscribe and unsubscribe calls without end: the    *)
(* provider and the alert sender answer every call, and the calls of the   *)
(* bot's users are not counted.  What the tick has finished so far is not  *)
(* kept, so that the tick's position is all that is left of it.            *)
(***************************************************************************)
\* the tick without the record of what it has done
Position(t) == [t EXCEPT !.results = << >>, !.alerts = << >>, !.watched = << >>]

FairSubscribe ==
    \E u \in Users, d \in Domains :
        /\ EngineBecomes(subscribe(Engine, u, d, EmptyObject).state)
        /\ UNCHANGED <<calls, ticks, reports, feed, due>>

FairUnsubscribe ==
    \E u \in Users, d \in Domains :
        LET S2 == unsubscribe(Engine, u, d).state
        IN  /\ EngineBecomes(S2)
            /\ ticks' = [i \in DOMAIN ticks |->
                            tickAfterUnsubscribe(Engine, S2, ticks[i], u, d)]
            /\ UNCHANGED <<calls, reports, feed, due>>

\* the event timer fires for the first time: lines 846-848
FairTimerFires ==
    /\ ticks = << >>
    /\ monitoringInterval # NoTimer
    /\ BagIn(monitoringInterval, timers)
    /\ ticks' = <<Position(checkForEvents(Engine))>>
    /\ EngineUnchanged
    /\ UNCHANGED <<calls, reports, feed, due>>

\* the call the tick is suspended on returns or throws, or the tick resumes
\* after a finished checkDomainEvents
FairTickStep ==
    /\ ticks # << >>
    /\ \/ \E value \in IF ticks[1].pc \in FetchStages
                        THEN ProviderValues(ticks[1].pc) ELSE {} :
             ticks' = <<Position(providerReturns(Engine, ticks[1], value))>>
       \/ /\ ticks[1].pc \in FetchStages
          /\ ticks' = <<Position(providerThrows(Engine, ticks[1]))>>
       \/ /\ ticks[1].pc = "sendEventAlert"
          /\ ticks' = <<Position(alertReturns(Engine, ticks[1]))>>
       \/ /\ ticks[1].pc = "checkDomainEvents"
          /\ ticks' = <<Position(domainReturns(Engine, ticks[1]))>>
    /\ EngineUnchanged
    /\ UNCHANGED <<calls, reports, feed, due>>

NextFairTick ==
    \/ FairSubscribe
    \/ FairUnsubscribe
    \/ FairTimerFires
    \/ FairTickStep

SpecFairTick ==
    Init /\ [][NextFairTick]_vars /\ WF_vars(FairTickStep)

(***************************************************************************)
(* Periodic reports: sendPeriodicReport as a process that is suspended at  *)
(* each provider call of generateStatusReport                              *)
(*                                                                         *)
(* A report record holds the position of one sendPeriodicReport            *)
(* invocation: pc is the call it awaits, domains is the array read from    *)
(* the user's record when the fire started, at is the index of the domain  *)
(* being fetched, entries is report.domains so far and sink is where the   *)
(* finished report went.  thrown lists the provider failures the           *)
(* invocation has met; it is not read by the invocation.                   *)
(***************************************************************************)
Null == "null"

NewReport(userId) ==
    [ pc |-> "start", userId |-> userId, domains |-> << >>, at |-> 0,
      data |-> Null, activities |-> << >>, listings |-> << >>,
      entries |-> << >>, sink |-> "none", thrown |-> << >> ]

Min(a, b) == IF a < b THEN a ELSE b

\* a quick score without the bound on the points given for activities
calculateQuickScore_ActivitiesUnbounded(domainData, activities, listings, offers) ==
    Min(100,
        (IF domainData # Null THEN 30 ELSE 0)
        + (IF Len(activities) > 0 THEN Len(activities) * 5 ELSE 0)
        + (IF Len(listings) > 0 THEN 20 ELSE 0)
        + (IF Len(offers) > 0 THEN 20 ELSE 0))

calculateQuickScore(domainData, activities, listings, offers) ==
    Min(100,
        (IF domainData # Null THEN 30 ELSE 0)
        + (IF Len(activities) > 0 THEN Min(30, Len(activities) * 5) ELSE 0)
        + (IF Len(listings) > 0 THEN 20 ELSE 0)
        + (IF Len(offers) > 0 THEN 20 ELSE 0))

\* the entry pushed at lines 1100-1109; an activity stands for its
\* timestamp and a listing for its priceInUSD
reportEntry(domain, domainData, activities, listings, offers) ==
    [ domain |-> domain,
      score |-> calculateQuickScore(domainData, activities, listings, offers),
      status |-> IF domainData # Null THEN "Active" ELSE "Inactive",
      activities |-> Len(activities),
      listings |-> Len(listings),
      offers |-> Len(offers),
      lastActivity |-> IF Len(activities) > 0 THEN activities[1] ELSE "None",
      currentPrice |-> IF Len(listings) > 0 THEN listings[1] ELSE "N/A",
      error |-> "" ]

\* the entry pushed at lines 1113-1118; the fields it does not have are
\* left at their empty values
errorEntry(domain, message) ==
    [ domain |-> domain, score |-> 0, status |-> "Error",
      activities |-> 0, listings |-> 0, offers |-> 0,
      lastActivity |-> "", currentPrice |-> "", error |-> message ]

\* the for-of over domains, lines 1089-1120: the next domain's first fetch
\* is awaited, or generateStatusReport returns its report (line 1122) and
\* sendPeriodicReport stays suspended on the await of line 1068 until the
\* runtime resumes it
nextReportDomain(r) ==
    IF r.at < Len(r.domains)
    THEN [r EXCEPT !.at = @ + 1, !.pc = "getDomainData", !.data = Null,
                   !.activities = << >>, !.listings = << >>]
    ELSE [r EXCEPT !.pc = "generateStatusReport", !.data = Null,
                   !.activities = << >>, !.listings = << >>]

\* sendPeriodicReport, lines 1068-1072: the awaited generateStatusReport has
\* resolved and the report is logged
reportReturns(r) == [r EXCEPT !.pc = "done", !.sink = "logger"]

sendPeriodicReport(S, userId) ==
    IF userId \notin DOMAIN S.subscriptions
    THEN [NewReport(userId) EXCEPT !.pc = "done"]
    ELSE LET domains == S.subscriptions[userId].domains
         IN  IF Len(domains) = 0
             THEN [NewReport(userId) EXCEPT !.pc = "done"]
             ELSE nextReportDomain([NewReport(userId) EXCEPT !.domains = domains])

\* generateStatusReport, lines 1092-1109: the awaited provider call resolves
reportProviderReturns(r, value) ==
    CASE r.pc = "getDomainData" ->
            [r EXCEPT !.data = value, !.pc = "getDomainActivities"]
      [] r.pc = "getDomainActivities" ->
            [r EXCEPT !.activities = value, !.pc = "getDomainListings"]
      [] r.pc = "getDomainListings" ->
            [r EXCEPT !.listings = value, !.pc = "getDomainOffers"]
      [] r.pc = "getDomainOffers" ->
            nextReportDomain([r EXCEPT !.entries =
                Append(@, reportEntry(r.domains[r.at], r.data, r.activities,
                                      r.listings, value))])

\* a provider failure ending the whole report
reportProviderThrows_Aborts(r, message) ==
    [r EXCEPT !.thrown = Append(@, [domain |-> r.domains[r.at],
                                    message |-> message]),
              !.pc = "done", !.data = Null,
              !.activities = << >>, !.listings = << >>]

\* generateStatusReport, lines 1111-1119: the awaited provider call rejects
reportProviderThrows(r, message) ==
    nextReportDomain([r EXCEPT
        !.thrown = Append(@, [domain |-> r.domains[r.at], message |-> message]),
        !.entries = Append(@, errorEntry(r.domains[r.at], message))])

(***************************************************************************)
(* The recurring timers: the event timer and the report timers fire again  *)
(* and again against a provider whose data does not change; a timer fires  *)
(* and subscribe and unsubscribe are called while earlier callbacks are    *)
(* suspended                                                               *)
(***************************************************************************)
\* what the repository's provider answers for every domain
ProviderFeed ==
    [data |-> "data", activities |-> <<"latest", "older">>,
     listings |-> <<"listing">>, offers |-> <<"offer">>]

\* what the provider can hold for one domain
DomainFeeds ==
    { [data |-> "data", activities |-> << >>, listings |-> << >>, offers |-> << >>],
      [data |-> "data", activities |-> <<"latest", "older">>,
       listings |-> << >>, offers |-> << >>],
      [data |-> Null, activities |-> << >>,
       listings |-> <<"listing">>, offers |-> <<"offer", "older offer">>],
      ProviderFeed }

Feeds == [Domains -> DomainFeeds]

\* the messages of the errors the provider throws
FailureMessages == {"Failed to fetch domain data: timeout"}

\* what the provider answers to the call pc for domain
feedValue(pc, domain) ==
    CASE pc = "getDomainData" -> feed[domain].data
      [] pc = "getDomainActivities" -> feed[domain].activities
      [] pc = "getDomainListings" -> feed[domain].listings
      [] pc = "getDomainOffers" -> feed[domain].offers

InitRecurring ==
    /\ subscriptions = NewEngine.subscriptions
    /\ domainWatchers = NewEngine.domainWatchers
    /\ isMonitoring = NewEngine.isMonitoring
    /\ monitoringInterval = NewEngine.monitoringInterval
    /\ reportTimers = NewEngine.reportTimers
    /\ timers = NewEngine.timers
    /\ calls = 0
    /\ ticks = << >>
    /\ reports = << >>
    /\ feed \in Feeds
    /\ due = {}

\* an interval timer that disarms itself when it fires
timerFired_OneShot(S, h) ==
    [S EXCEPT !.timers = IF BagIn(h, @) THEN @ (-) SetToBag({h}) ELSE @]

\* the runtime has called the callback of the interval timer h, armed by
\* setInterval at line 846 or 1033: the timer stays armed
timerFired(S, h) == S

RecurringSubscribe ==
    \E u \in Users, d \in Domains :
        /\ calls + Len(ticks) + Len(reports) < MaxRecurringEvents
        /\ calls' = calls + 1
        /\ EngineBecomes(subscribe(Engine, u, d, EmptyObject).state)
        /\ UNCHANGED <<ticks, reports, feed, due>>

RecurringUnsubscribe ==
    \E u \in Users, d \in Domains :
        LET S2 == unsubscribe(Engine, u, d).state
        IN  /\ calls + Len(ticks) + Len(reports) < MaxRecurringEvents
            /\ calls' = calls + 1
            /\ EngineBecomes(S2)
            /\ ticks' = [i \in DOMAIN ticks |->
                            tickAfterUnsubscribe(Engine, S2, ticks[i], u, d)]
            /\ UNCHANGED <<reports, feed, due>>

\* the event timer fires: lines 846-848
EventTimerFires ==
    /\ calls + Len(ticks) + Len(reports) < MaxRecurringEvents
    /\ monitoringInterval # NoTimer
    /\ BagIn(monitoringInterval, timers)
    /\ ticks' = Append(ticks, checkForEvents(Engine))
    /\ EngineBecomes(timerFired(Engine, monitoringInterval))
    /\ UNCHANGED <<calls, reports, feed, due>>

\* a user's report timer fires: lines 1033-1035
ReportTimerFires ==
    \E h \in BagToSet(timers) :
        /\ calls + Len(ticks) + Len(reports) < MaxRecurringEvents
        /\ h.kind = "report"
        /\ reports' = Append(reports, sendPeriodicReport(Engine, h.userId))
        /\ EngineBecomes(timerFired(Engine, h))
        /\ UNCHANGED <<calls, ticks, feed, due>>

\* the provider answers a tick's call with the data it holds
FeedReturns ==
    \E i \in DOMAIN ticks :
        /\ ticks[i].pc \in FetchStages
        /\ ticks' = [ticks EXCEPT ![i] =
               providerReturns(Engine, @, feedValue(ticks[i].pc, ticks[i].domain))]
        /\ EngineUnchanged
        /\ UNCHANGED <<calls, reports, feed, due>>

\* the provider answers a report's call with the data it holds
ReportFeedReturns ==
    \E i \in DOMAIN reports :
        /\ reports[i].pc \in FetchStages
        /\ reports' = [reports EXCEPT ![i] =
               reportProviderReturns(@, feedValue(reports[i].pc,
                                                  reports[i].domains[reports[i].at]))]
        /\ EngineUnchanged
        /\ UNCHANGED <<calls, ticks, feed, due>>

\* sendPeriodicReport resumes after generateStatusReport and logs the report
ReportReturns ==
    \E i \in DOMAIN reports :
        /\ reports[i].pc = "generateStatusReport"
        /\ reports' = [reports EXCEPT ![i] = reportReturns(@)]
        /\ EngineUnchanged
        /\ UNCHANGED <<calls, ticks, feed, due>>

\* the provider fails a report's call
ReportProviderThrows ==
    \E i \in DOMAIN reports, message \in FailureMessages :
        /\ reports[i].pc \in FetchStages
        /\ reports' = [reports EXCEPT ![i] = reportProviderThrows(@, message)]
        /\ EngineUnchanged
        /\ UNCHANGED <<calls, ticks, feed, due>>

NextRecurring ==
    \/ RecurringSubscribe
    \/ RecurringUnsubscribe
    \/ EventTimerFires
    \/ ReportTimerFires
    \/ FeedReturns
    \/ ProviderThrows
    \/ AlertReturns
    \/ DomainReturns
    \/ ReportFeedReturns
    \/ ReportReturns
    \/ ReportProviderThrows

SpecRecurring == InitRecurring /\ [][NextRecurring]_vars

(***************************************************************************)
(* One report fire: subscribe and unsubscribe calls interleave with the    *)
(* suspension points of a user's first periodic report                     *)
(***************************************************************************)
ReportSubscribe ==
    \E u \in Users, d \in Domains :
        /\ calls < MaxReportCalls
        /\ calls' = calls + 1
        /\ EngineBecomes(subscribe(Engine, u, d, EmptyObject).state)
        /\ UNCHANGED <<ticks, reports, feed, due>>

ReportUnsubscribe ==
    \E u \in Users, d \in Domains :
        /\ calls < MaxReportCalls
        /\ calls' = calls + 1
        /\ EngineBecomes(unsubscribe(Engine, u, d).state)
        /\ UNCHANGED <<ticks, reports, feed, due>>

\* a report timer fires for the first time: lines 1033-1035
FirstReportTimerFires ==
    \E h \in BagToSet(timers) :
        /\ reports = << >>
        /\ h.kind = "report"
        /\ reports' = <<sendPeriodicReport(Engine, h.userId)>>
        /\ EngineBecomes(timerFired(Engine, h))
        /\ UNCHANGED <<calls, ticks, feed, due>>

NextReport ==
    \/ ReportSubscribe
    \/ ReportUnsubscribe
    \/ FirstReportTimerFires
    \/ ReportFeedReturns
    \/ ReportReturns
    \/ ReportProviderThrows

SpecReport == InitRecurring /\ [][NextReport]_vars

(***************************************************************************)
(* Scored reports: one report fire against provider data with activity,    *)
(* listing and offer lists of every length up to a bound                   *)
(***************************************************************************)
\* a list of n items
Items(n, item) == [i \in 1..n |-> item]

\* what the provider can hold for a domain of a scored report
ScoreFeeds ==
    { [data |-> data, activities |-> Items(na, "activity"),
       listings |-> Items(nl, "listing"), offers |-> Items(no, "offer")] :
         data \in {Null, "data"}, na \in 0..MaxScoreActivities,
         nl \in 0..MaxScoreItems, no \in 0..MaxScoreItems }

InitScore ==
    /\ subscriptions = NewEngine.subscriptions
    /\ domainWatchers = NewEngine.domainWatchers
    /\ isMonitoring = NewEngine.isMonitoring
    /\ monitoringInterval = NewEngine.monitoringInterval
    /\ reportTimers = NewEngine.reportTimers
    /\ timers = NewEngine.timers
    /\ calls = 0
    /\ ticks = << >>
    /\ reports = << >>
    /\ \E f \in ScoreFeeds : feed = [d \in Domains |-> f]
    /\ due = {}

ScoreSubscribe ==
    \E u \in Users, d \in Domains :
        /\ calls < MaxScoreCalls
        /\ calls' = calls + 1
        /\ EngineBecomes(subscribe(Engine, u, d, EmptyObject).state)
        /\ UNCHANGED <<ticks, reports, feed, due>>

NextScore ==
    \/ ScoreSubscribe
    \/ FirstReportTimerFires
    \/ ReportFeedReturns
    \/ ReportReturns

SpecScore == InitScore /\ [][NextScore]_vars

(***************************************************************************)
(* Overlapping callbacks: a timer fires again while earlier callbacks of   *)
(* the same timer are still suspended.  What a callback has finished so    *)
(* far is not kept, so that its position is all that is left of it.        *)
(***************************************************************************)
\* the provider answers as the repository's provider does: two activities,
\* one listing and one offer for every domain
InitOverlap ==
    /\ InitRecurring
    /\ feed = [d \in Domains |-> ProviderFeed]

\* the report without the record of what it has assembled
ReportPosition(r) == [r EXCEPT !.entries = << >>, !.thrown = << >>]

OverlapSubscribe ==
    \E u \in Users, d \in Domains :
        /\ calls + Len(ticks) + Len(reports) < MaxOverlapEvents
        /\ calls' = calls + 1
        /\ EngineBecomes(subscribe(Engine, u, d, EmptyObject).state)
        /\ UNCHANGED <<ticks, reports, feed, due>>

OverlapUnsubscribe ==
    \E u \in Users, d \in Domains :
        LET S2 == unsubscribe(Engine, u, d).state
        IN  /\ calls + Len(ticks) + Len(reports) < MaxOverlapEvents
            /\ calls' = calls + 1
            /\ EngineBecomes(S2)
            /\ ticks' = [i \in DOMAIN ticks |->
                            tickAfterUnsubscribe(Engine, S2, ticks[i], u, d)]
            /\ UNCHANGED <<reports, feed, due>>

\* an event timer that skips a fire while an earlier tick is in flight
OverlapTimerFires_Exclusive ==
    /\ \A i \in DOMAIN ticks : ticks[i].pc = "done"
    /\ calls + Len(ticks) + Len(reports) < MaxOverlapEvents
    /\ monitoringInterval # NoTimer
    /\ BagIn(monitoringInterval, timers)
    /\ ticks' = Append(ticks, Position(checkForEvents(Engine)))
    /\ EngineBecomes(timerFired(Engine, monitoringInterval))
    /\ UNCHANGED <<calls, reports, feed, due>>

\* the event timer fires, lines 846-848: the callback tests nothing before
\* it calls checkForEvents
OverlapTimerFires ==
    /\ calls + Len(ticks) + Len(reports) < MaxOverlapEvents
    /\ monitoringInterval # NoTimer
    /\ BagIn(monitoringInterval, timers)
    /\ ticks' = Append(ticks, Position(checkForEvents(Engine)))
    /\ EngineBecomes(timerFired(Engine, monitoringInterval))
    /\ UNCHANGED <<calls, reports, feed, due>>

\* the report timer of userId fires, lines 1033-1035: the callback tests
\* nothing before it calls sendPeriodicReport
OverlapReportFires(userId) ==
    /\ calls + Len(ticks) + Len(reports) < MaxOverlapEvents
    /\ userId \in DOMAIN reportTimers
    /\ BagIn(reportTimers[userId], timers)
    /\ reports' = Append(reports, ReportPosition(sendPeriodicReport(Engine, userId)))
    /\ EngineBecomes(timerFired(Engine, reportTimers[userId]))
    /\ UNCHANGED <<calls, ticks, feed, due>>

\* the call a tick is suspended on returns or throws, or the tick resumes
\* after a finished checkDomainEvents
OverlapTickStep ==
    \E i \in DOMAIN ticks :
        /\ \/ /\ ticks[i].pc \in FetchStages
              /\ ticks' = [ticks EXCEPT ![i] =
                     Position(providerReturns(Engine, @,
                                  feedValue(ticks[i].pc, ticks[i].domain)))]
           \/ /\ ticks[i].pc \in FetchStages
              /\ ticks' = [ticks EXCEPT ![i] = Position(providerThrows(Engine, @))]
           \/ /\ ticks[i].pc = "sendEventAlert"
              /\ ticks' = [ticks EXCEPT ![i] = Position(alertReturns(Engine, @))]
           \/ /\ ticks[i].pc = "checkDomainEvents"
              /\ ticks' = [ticks EXCEPT ![i] = Position(domainReturns(Engine, @))]
        /\ EngineUnchanged
        /\ UNCHANGED <<calls, reports, feed, due>>

\* the provider call a report is suspended on returns or throws, or
\* sendPeriodicReport resumes after generateStatusReport
OverlapReportStep ==
    \E i \in DOMAIN reports :
        /\ \/ /\ reports[i].pc \in FetchStages
              /\ reports' = [reports EXCEPT ![i] =
                     ReportPosition(reportProviderReturns(@,
                         feedValue(reports[i].pc, reports[i].domains[reports[i].at])))]
           \/ /\ reports[i].pc \in FetchStages
              /\ \E message \in FailureMessages :
                     reports' = [reports EXCEPT ![i] =
                                    ReportPosition(reportProviderThrows(@, message))]
           \/ /\ reports[i].pc = "generateStatusReport"
              /\ reports' = [reports EXCEPT ![i] = reportReturns(@)]
        /\ EngineUnchanged
        /\ UNCHANGED <<calls, ticks, feed, due>>

NextOverlap ==
    \/ OverlapSubscribe
    \/ OverlapUnsubscribe
    \/ OverlapTimerFires
    \/ \E u \in Users : OverlapReportFires(u)
    \/ OverlapTickStep
    \/ OverlapReportStep

SpecOverlap == InitOverlap /\ [][NextOverlap]_vars

(***************************************************************************)
(* The service with its timers firing: every public call interleaves with  *)
(* the suspension points of ticks and report fires, and a timer fires      *)
(* while earlier callbacks are still suspended                             *)
(***************************************************************************)
TickSubscribe ==
    \E u \in Users, d \in Domains :
        /\ calls + Len(ticks) + Len(reports) < MaxTickEvents
        /\ calls' = calls + 1
        /\ EngineBecomes(subscribe(Engine, u, d, EmptyObject).state)
        /\ UNCHANGED <<ticks, reports, feed, due>>

TickUnsubscribe ==
    \E u \in Users, d \in Domains :
        LET S2 == unsubscribe(Engine, u, d).state
        IN  /\ calls + Len(ticks) + Len(reports) < MaxTickEvents
            /\ calls' = calls + 1
            /\ EngineBecomes(S2)
            /\ UNCHANGED <<reports, feed, due>>
            /\ ticks' = [i \in DOMAIN ticks |->
                            tickAfterUnsubscribe(Engine, S2, ticks[i], u, d)]

TickUpdatePreferences ==
    \E u \in Users, p \in TickOverrides :
        /\ calls + Len(ticks) + Len(reports) < MaxTickEvents
        /\ calls' = calls + 1
        /\ EngineBecomes(updatePreferences(Engine, u, p).state)
        /\ UNCHANGED <<ticks, reports, feed, due>>

TickSetReportInterval ==
    \E u \in Users, interval \in IntervalArgs :
        /\ calls + Len(ticks) + Len(reports) < MaxTickEvents
        /\ calls' = calls + 1
        /\ EngineBecomes(setReportInterval(Engine, u, interval).state)
        /\ UNCHANGED <<ticks, reports, feed, due>>

TickTogglePeriodicReports ==
    \E u \in Users, enabled \in BOOLEAN :
        /\ calls + Len(ticks) + Len(reports) < MaxTickEvents
        /\ calls' = calls + 1
        /\ EngineBecomes(togglePeriodicReports(Engine, u, enabled).state)
        /\ UNCHANGED <<ticks, reports, feed, due>>

TickGetUserSubscriptions ==
    \E u \in Users :
        /\ calls + Len(ticks) + Len(reports) < MaxTickEvents
        /\ calls' = calls + 1
        /\ EngineBecomes(getUserSubscriptionsCall(Engine, u).state)
        /\ UNCHANGED <<ticks, reports, feed, due>>

TickGetStats ==
    /\ calls + Len(ticks) + Len(reports) < MaxTickEvents
    /\ calls' = calls + 1
    /\ EngineBecomes(getStatsCall(Engine).state)
    /\ UNCHANGED <<ticks, reports, feed, due>>

TickStartEventMonitoring ==
    /\ calls + Len(ticks) + Len(reports) < MaxTickEvents
    /\ calls' = calls + 1
    /\ EngineBecomes(startEventMonitoring(Engine))
    /\ UNCHANGED <<ticks, reports, feed, due>>

TickStopEventMonitoring ==
    /\ calls + Len(ticks) + Len(reports) < MaxTickEvents
    /\ calls' = calls + 1
    /\ EngineBecomes(stopEventMonitoring(Engine))
    /\ UNCHANGED <<ticks, reports, feed, due>>

\* the event timer fires, lines 846-848: the callback tests nothing before
\* it calls checkForEvents, so a tick starts while earlier callbacks are
\* still suspended
TimerFires ==
    /\ calls + Len(ticks) + Len(reports) < MaxTickEvents
    /\ monitoringInterval # NoTimer
    /\ BagIn(monitoringInterval, timers)
    /\ UNCHANGED <<reports, feed, due>>
    /\ ticks' = Append(ticks, checkForEvents(Engine))
    /\ EngineUnchanged
    /\ UNCHANGED calls

\* a user's report timer fires, lines 1033-1035: the callback tests nothing
\* before it calls sendPeriodicReport
TickReportFires ==
    \E u \in DOMAIN reportTimers :
        /\ calls + Len(ticks) + Len(reports) < MaxTickEvents
        /\ BagIn(reportTimers[u], timers)
        /\ reports' = Append(reports, sendPeriodicReport(Engine, u))
        /\ EngineUnchanged
        /\ UNCHANGED <<calls, ticks, feed, due>>

NextTick ==
    \/ TickSubscribe
    \/ TickUnsubscribe
    \/ TickUpdatePreferences
    \/ TickSetReportInterval
    \/ TickTogglePeriodicReports
    \/ TickGetUserSubscriptions
    \/ TickGetStats
    \/ TickStartEventMonitoring
    \/ TickStopEventMonitoring
    \/ TimerFires
    \/ TickReportFires
    \/ FeedReturns
    \/ ProviderThrows
    \/ AlertReturns
    \/ DomainReturns
    \/ ReportFeedReturns
    \/ ReportReturns
    \/ ReportProviderThrows

SpecTick == InitOverlap /\ [][NextTick]_vars

(***************************************************************************)
(* One report fire among calls that switch periodic reports on and off     *)
(***************************************************************************)
\* preference objects that switch periodic reports off
ReportsOff == { [periodicReports |-> FALSE] }

PrefsSubscribe ==
    \E u \in Users, d \in Domains, p \in {EmptyObject} \cup ReportsOff :
        /\ calls < MaxPrefsCalls
        /\ calls' = calls + 1
        /\ EngineBecomes(subscribe(Engine, u, d, p).state)
        /\ UNCHANGED <<ticks, reports, feed, due>>

PrefsUpdatePreferences ==
    \E u \in Users, p \in ReportsOff :
        /\ calls < MaxPrefsCalls
        /\ calls' = calls + 1
        /\ EngineBecomes(updatePreferences(Engine, u, p).state)
        /\ UNCHANGED <<ticks, reports, feed, due>>

PrefsTogglePeriodicReports ==
    \E u \in Users, enabled \in BOOLEAN :
        /\ calls < MaxPrefsCalls
        /\ calls' = calls + 1
        /\ EngineBecomes(togglePeriodicReports(Engine, u, enabled).state)
        /\ UNCHANGED <<ticks, reports, feed, due>>

NextPrefs ==
    \/ PrefsSubscribe
    \/ PrefsUpdatePreferences
    \/ PrefsTogglePeriodicReports
    \/ FirstReportTimerFires
    \/ ReportFeedReturns
    \/ ReportReturns

SpecPrefs == InitOverlap /\ [][NextPrefs]_vars

(***************************************************************************)
(* Report timers in time: a timer fires only after its period has run out  *)
(* since it was armed, and a call that cancels and re-creates the timer    *)
(* starts the period again.  Calls are not counted; a timer fires while    *)
(* earlier reports of the same user are still being assembled.  The        *)
(* entries a report has assembled so far are not kept.                     *)
(***************************************************************************)
\* the timer handles a call has passed to clearInterval or setInterval
TimersTouched(r) == {r.timerCalls[i][2] : i \in 1..Len(r.timerCalls)}

\* interval arguments a user keeps sending
FairIntervals == {"30min"}

FairSubscribeBy(u) ==
    \E d \in Domains :
        LET r == subscribe(Engine, u, d, EmptyObject)
        IN  /\ EngineBecomes(r.state)
            /\ due' = due \ TimersTouched(r)
            /\ UNCHANGED <<calls, ticks, reports, feed>>

FairSetReportIntervalBy(u) ==
    \E interval \in FairIntervals :
        LET r == setReportInterval(Engine, u, interval)
        IN  /\ EngineBecomes(r.state)
            /\ due' = due \ TimersTouched(r)
            /\ UNCHANGED <<calls, ticks, reports, feed>>

FairTogglePeriodicReportsBy(u) ==
    \E enabled \in BOOLEAN :
        LET r == togglePeriodicReports(Engine, u, enabled)
        IN  /\ EngineBecomes(r.state)
            /\ due' = due \ TimersTouched(r)
            /\ UNCHANGED <<calls, ticks, reports, feed>>

\* the armed report timers; the event timer's ticks are followed in SpecTick
ArmedReportTimers == {t \in BagToSet(timers) : t.kind = "report"}

\* time passes: the period of every armed report timer runs out
TimePasses ==
    /\ due # ArmedReportTimers
    /\ due' = ArmedReportTimers
    /\ EngineUnchanged
    /\ UNCHANGED <<calls, ticks, reports, feed>>

\* the reports of u that have been started
ReportsOf(u) == {i \in DOMAIN reports : reports[i].userId = u}

\* the report timer of u fires when its period has run out, lines 1033-1035,
\* and its next period begins; the callback tests nothing before it calls
\* sendPeriodicReport
FairReportFires(u) ==
    /\ Cardinality(ReportsOf(u)) < MaxFairFires
    /\ u \in DOMAIN reportTimers
    /\ reportTimers[u] \in due
    /\ BagIn(reportTimers[u], timers)
    /\ reports' = Append(reports, ReportPosition(sendPeriodicReport(Engine, u)))
    /\ due' = due \ {reportTimers[u]}
    /\ EngineBecomes(timerFired(Engine, reportTimers[u]))
    /\ UNCHANGED <<calls, ticks, feed>>

\* the provider call a report of u is suspended on returns or throws, or
\* sendPeriodicReport resumes after generateStatusReport
FairReportStep(u) ==
    \E i \in ReportsOf(u) :
        /\ \/ /\ reports[i].pc \in FetchStages
              /\ reports' = [reports EXCEPT ![i] =
                     ReportPosition(reportProviderReturns(@,
                         feedValue(reports[i].pc, reports[i].domains[reports[i].at])))]
           \/ /\ reports[i].pc \in FetchStages
              /\ \E message \in FailureMessages :
                     reports' = [reports EXCEPT ![i] =
                                    ReportPosition(reportProviderThrows(@, message))]
           \/ /\ reports[i].pc = "generateStatusReport"
              /\ reports' = [reports EXCEPT ![i] = reportReturns(@)]
        /\ EngineUnchanged
        /\ UNCHANGED <<calls, ticks, feed, due>>

NextFairReports ==
    \/ \E u \in Users : FairSubscribeBy(u)
    \/ \E u \in Users : FairSetReportIntervalBy(u)
    \/ \E u \in Users : FairTogglePeriodicReportsBy(u)
    \/ TimePasses
    \/ \E u \in Users : FairReportFires(u)
    \/ \E u \in Users : FairReportStep(u)

SpecFairReports ==
    /\ InitOverlap
    /\ [][NextFairReports]_vars
    /\ WF_vars(TimePasses)
    /\ \A u \in Users : WF_vars(FairReportFires(u)) /\ WF_vars(FairReportStep(u))

(***************************************************************************)
(* Properties of the registry                                              *)
(***************************************************************************)
\* u is in the watcher set of d
Watches(S, u, d) ==
    MapHas(S.domainWatchers, d) /\ SetHas(MapValue(S.domainWatchers, d), u)

\* d is in the domain set of u's record
Subscribed(S, u, d) ==
    u \in DOMAIN S.subscriptions /\ SetHas(S.subscriptions[u].domains, d)

\* the users watching d
WatchersOf(S, d) == {u \in Users : Watches(S, u, d)}

\* C1: in every reachable state, for all users u and domains d, u is in
\* domainWatchers[d] if and only if d is in subscriptions[u].domains.
C1_IndexInSync ==
    \A u \in Users, d \in Domains :
        Watches(Engine, u, d) <=> Subscribed(Engine, u, d)

\* C1 witness: after an unsubscribe, a user with a record no longer watches a
\* domain that another user still watches.
C1_Witness ==
    \E u, v \in Users, d \in Domains :
        /\ u # v
        /\ u \in DOMAIN subscriptions
        /\ ~Subscribed(Engine, u, d)
        /\ Watches(Engine, v, d)
        /\ Subscribed(Engine, v, d)

\* C2: every key of the watch index has a non-empty watcher set, and a
\* successful unsubscribe lowers getStats().totalDomains by exactly 1 when the
\* caller was the last watcher of the domain and leaves it unchanged when
\* another watcher remains.
C2_NoEmptyWatcherSets ==
    /\ \A i \in 1..Len(domainWatchers) : Len(domainWatchers[i].value) > 0
    /\ \A i, j \in 1..Len(domainWatchers) :
          domainWatchers[i].key = domainWatchers[j].key => i = j
    /\ \A u \in Users, d \in Domains :
          LET r == unsubscribe(Engine, u, d)
          IN  r.result.success =>
                /\ \A i \in 1..Len(r.state.domainWatchers) :
                      Len(r.state.domainWatchers[i].value) > 0
                /\ getStats(r.state).totalDomains =
                      IF WatchersOf(Engine, d) \subseteq {u}
                      THEN getStats(Engine).totalDomains - 1
                      ELSE getStats(Engine).totalDomains

\* C2 witness: users 42 and 7 watched a.com, 42 has unsubscribed, and
\* totalDomains is still 1.
C2_Witness ==
    /\ 42 \in DOMAIN subscriptions
    /\ ~Subscribed(Engine, 42, "a.com")
    /\ Watches(Engine, 7, "a.com")
    /\ getStats(Engine).totalDomains = 1

\* C3 (as claimed): every existing user's preferences.reportInterval is one
\* of '10min', '30min', '12h', '1day'.
C3_ReportIntervalEnumerated ==
    \A u \in DOMAIN subscriptions :
        subscriptions[u].preferences.reportInterval \in ReportIntervalKeys

\* C4 (as claimed): a user has an entry in reportTimers if and only if the
\* user has a record whose preferences.periodicReports is true.
C4_TimerIffPeriodicReports ==
    \A u \in Users :
        (u \in DOMAIN reportTimers) <=>
            (u \in DOMAIN subscriptions
                /\ subscriptions[u].preferences.periodicReports = TRUE)

\* C5 (as claimed, for stored intervals that are among the four): the period
\* of a user's live report timer equals reportIntervals[reportInterval] of
\* the interval currently stored for that user.
C5_TimerPeriodIsStoredInterval ==
    \A u \in DOMAIN reportTimers :
        (u \in DOMAIN subscriptions
            /\ subscriptions[u].preferences.reportInterval \in ReportIntervalKeys)
        => reportTimers[u].delay =
              reportIntervals(subscriptions[u].preferences.reportInterval)

\* C6: subscribe(u, d) returns success; afterwards d is in
\* getUserSubscriptions(u).domains and u is in d's watcher set; totalDomains
\* grows by 1 exactly when d had no watcher, totalUsers grows by 1 exactly when
\* u had no record; a new user subscribing without overrides gets the
\* documented default preferences.
C6_SubscribeAdds ==
    \A u \in Users, d \in Domains, p \in PrefOverrides :
        LET r == subscribe(Engine, u, d, p)
        IN  /\ r.result.success
            /\ SetHas(getUserSubscriptions(r.state, u).domains, d)
            /\ Watches(r.state, u, d)
            /\ getStats(r.state).totalDomains =
                  IF WatchersOf(Engine, d) = {}
                  THEN getStats(Engine).totalDomains + 1
                  ELSE getStats(Engine).totalDomains
            /\ getStats(r.state).totalUsers =
                  IF u \notin DOMAIN subscriptions
                  THEN getStats(Engine).totalUsers + 1
                  ELSE getStats(Engine).totalUsers
            /\ (u \notin DOMAIN subscriptions /\ p = EmptyObject) =>
                  getUserSubscriptions(r.state, u).preferences =
                      [ priceAlerts |-> TRUE, expirationAlerts |-> TRUE,
                        saleAlerts |-> TRUE, transferAlerts |-> TRUE,
                        scoreThreshold |-> 80, reportInterval |-> "30min",
                        periodicReports |-> TRUE ]

\* C6 witness: the state right after the first subscribe of user 42 to a.com:
\* one user, one domain, monitoring on, default preferences.
C6_Witness ==
    /\ getUserSubscriptions(Engine, 42).domains = <<"a.com">>
    /\ getUserSubscriptions(Engine, 42).preferences.scoreThreshold = 80
    /\ getUserSubscriptions(Engine, 42).preferences.reportInterval = "30min"
    /\ getUserSubscriptions(Engine, 42).preferences.periodicReports = TRUE
    /\ getUserSubscriptions(Engine, 42).preferences.priceAlerts = TRUE
    /\ getStats(Engine) = [ totalUsers |-> 1, totalDomains |-> 1,
                            isMonitoring |-> TRUE, activeReportTimers |-> 1 ]

\* C7: a second subscribe(u, d) without overrides succeeds and leaves the
\* user's domain set, every watcher set, the user's preferences, totalUsers
\* and totalDomains as they were after the first call.
C7_SubscribeIdempotent ==
    \A u \in Users, d \in Domains :
        LET first == subscribe(Engine, u, d, EmptyObject)
            second == subscribe(first.state, u, d, EmptyObject)
        IN  /\ second.result.success
            /\ second.state.subscriptions = first.state.subscriptions
            /\ second.state.domainWatchers = first.state.domainWatchers
            /\ getStats(second.state).totalUsers = getStats(first.state).totalUsers
            /\ getStats(second.state).totalDomains = getStats(first.state).totalDomains

\* C7 witness: a user watches two domains together with another user, and a
\* repeated subscribe to one of them leaves the engine as it is.
C7_Witness ==
    \E u, v \in Users, d, e \in Domains :
        /\ u # v /\ d # e
        /\ Subscribed(Engine, u, d) /\ Subscribed(Engine, u, e)
        /\ Watches(Engine, v, d)
        /\ subscribe(Engine, u, d, EmptyObject).state = Engine

\* subscribe(u, d) followed immediately by unsubscribe(u, d)
RoundTrip(S, u, d) == unsubscribe(subscribe(S, u, d, EmptyObject).state, u, d)

\* C8 (as claimed): for every reachable state and every (u, d), subscribe
\* then unsubscribe returns the user's domain set and the watch index to their
\* pre-subscribe values.
C8_RoundTripAlways ==
    \A u \in Users, d \in Domains :
        LET r == RoundTrip(Engine, u, d)
        IN  /\ getUserSubscriptions(r.state, u).domains =
                  getUserSubscriptions(Engine, u).domains
            /\ r.state.domainWatchers = domainWatchers

\* C8 (amended): the round trip restores the user's domain set and the watch
\* index whenever d was not in u's domain set before the subscribe.
C8_RoundTripWhenNew ==
    \A u \in Users, d \in Domains :
        ~Subscribed(Engine, u, d) =>
            LET r == RoundTrip(Engine, u, d)
            IN  /\ r.result.success
                /\ getUserSubscriptions(r.state, u).domains =
                      getUserSubscriptions(Engine, u).domains
                /\ r.state.domainWatchers = domainWatchers
                /\ getStats(r.state).totalDomains = getStats(Engine).totalDomains

\* C8 witness: a user with a record does not watch d while another user
\* does, and watches some other domain; the round trip on d succeeds.
C8_Witness ==
    \E u, v \in Users, d, e \in Domains :
        /\ u # v /\ d # e
        /\ Subscribed(Engine, u, e)
        /\ ~Subscribed(Engine, u, d)
        /\ Watches(Engine, v, d)
        /\ RoundTrip(Engine, u, d).result.success

\* C9: unsubscribe(u, d) returns success:false and leaves the whole engine
\* state unchanged when u has no record ('No active subscriptions found') and
\* when u has a record without d ('Not subscribed to d'); it creates no record.
C9_UnsubscribeFailuresChangeNothing ==
    \A u \in Users, d \in Domains :
        LET r == unsubscribe(Engine, u, d)
        IN  /\ u \notin DOMAIN subscriptions =>
                  /\ r.result = [success |-> FALSE,
                                 message |-> <<"No active subscriptions found">>]
                  /\ r.state = Engine
                  /\ u \notin DOMAIN r.state.subscriptions
            /\ (u \in DOMAIN subscriptions /\ ~Subscribed(Engine, u, d)) =>
                  /\ r.result = [success |-> FALSE,
                                 message |-> <<"Not subscribed to ", d>>]
                  /\ r.state = Engine

\* C9 witness: one user has a record that holds a domain but not d, another
\* user has no record at all, timers are running, and unsubscribe fails for
\* both.
C9_Witness ==
    \E u, v \in Users, d \in Domains :
        /\ u \in DOMAIN subscriptions
        /\ Len(subscriptions[u].domains) > 0
        /\ ~Subscribed(Engine, u, d)
        /\ v \notin DOMAIN subscriptions
        /\ u \in DOMAIN reportTimers
        /\ isMonitoring
        /\ ~unsubscribe(Engine, u, d).result.success
        /\ ~unsubscribe(Engine, v, d).result.success

\* C10: a successful unsubscribe(u, d) leaves the user's report timer, the
\* user's preferences, the existence of the user's record and the monitoring
\* flag (and its timer) unchanged, also when it empties the user's domain set
\* or the whole watch index.
C10_UnsubscribeFrame ==
    \A u \in Users, d \in Domains :
        LET r == unsubscribe(Engine, u, d)
        IN  r.result.success =>
              /\ r.state.reportTimers = reportTimers
              /\ r.state.timers = timers
              /\ u \in DOMAIN r.state.subscriptions
              /\ r.state.subscriptions[u].preferences =
                    subscriptions[u].preferences
              /\ r.state.isMonitoring = isMonitoring
              /\ r.state.monitoringInterval = monitoringInterval
              /\ DOMAIN r.state.subscriptions = DOMAIN subscriptions

\* C10 witness: a user's last domain, which was the last watched domain of
\* the registry, has been unsubscribed: the record is empty, the index is
\* empty, and the user's report timer and the monitoring timer are still live.
C10_Witness ==
    \E u \in Users :
        /\ u \in DOMAIN subscriptions
        /\ subscriptions[u].domains = << >>
        /\ domainWatchers = << >>
        /\ u \in DOMAIN reportTimers
        /\ BagIn(reportTimers[u], timers)
        /\ isMonitoring
        /\ BagIn(monitoringInterval, timers)

(***************************************************************************)
(* Reads, preferences and report cadence                                   *)
(***************************************************************************)
\* the names of the preference fields
PreferenceFields ==
    { "priceAlerts", "expirationAlerts", "saleAlerts", "transferAlerts",
      "scoreThreshold", "reportInterval", "periodicReports" }

\* new is old with exactly the fields of partial replaced
MergedInto(old, partial, new) ==
    \A f \in PreferenceFields :
        new[f] = IF f \in DOMAIN partial THEN partial[f] ELSE old[f]

\* how many live runtime timers of the given kind belong to the user
LiveTimers(S, kind, userId) ==
    LET hs == {h \in BagToSet(S.timers) : h.kind = kind /\ h.userId = userId}
    IN  BagCardinality([h \in hs |-> CopiesIn(h, S.timers)])

NoActiveSubscriptions == <<"No active subscriptions found">>
InvalidReportInterval ==
    <<"Invalid report interval. Use: 10min, 30min, 12h, 1day">>

\* C11 (as claimed): for a user with no record, getUserSubscriptions returns
\* an empty domain list together with the default preferences, the values a
\* brand-new record gets from subscribe: the four alert toggles true,
\* scoreThreshold 80, reportInterval '30min', periodicReports true.
C11_UnknownUserGetsDefaults ==
    \A u \in Users :
        u \notin DOMAIN subscriptions =>
            getUserSubscriptions(Engine, u) =
                [ domains |-> << >>,
                  preferences |->
                      [ priceAlerts |-> TRUE, expirationAlerts |-> TRUE,
                        saleAlerts |-> TRUE, transferAlerts |-> TRUE,
                        scoreThreshold |-> 80, reportInterval |-> "30min",
                        periodicReports |-> TRUE ] ]

\* C13: preference merging is shallow and field-wise.  subscribe with
\* overrides, on a new or an existing user, and updatePreferences on an
\* existing user set exactly the supplied fields and leave every other field
\* at its prior value (the defaults for a new user); updatePreferences on a
\* user without a record fails and creates no record.
C13_ShallowMerge ==
    \A u \in Users, p \in MergeOverrides :
        LET known == u \in DOMAIN subscriptions
            old == IF known THEN subscriptions[u].preferences
                   ELSE [ priceAlerts |-> TRUE, expirationAlerts |-> TRUE,
                          saleAlerts |-> TRUE, transferAlerts |-> TRUE,
                          scoreThreshold |-> 80, reportInterval |-> "30min",
                          periodicReports |-> TRUE ]
            up == updatePreferences(Engine, u, p)
        IN  /\ \A d \in Domains :
                  MergedInto(old, p,
                      subscribe(Engine, u, d, p).state.subscriptions[u].preferences)
            /\ known =>
                  /\ up.result.success
                  /\ MergedInto(old, p, up.state.subscriptions[u].preferences)
                  /\ up.state.subscriptions[u].domains = subscriptions[u].domains
            /\ ~known =>
                  /\ ~up.result.success
                  /\ u \notin DOMAIN up.state.subscriptions
                  /\ up.state = Engine

\* C13 witness: a user holds values that came from three different calls:
\* priceAlerts and scoreThreshold from one override, reportInterval from
\* another, periodicReports from a third, and the untouched fields still at
\* their defaults.
C13_Witness ==
    \E u \in DOMAIN subscriptions :
        /\ subscriptions[u].preferences.priceAlerts = FALSE
        /\ subscriptions[u].preferences.scoreThreshold = 50
        /\ subscriptions[u].preferences.reportInterval = "12h"
        /\ subscriptions[u].preferences.periodicReports = FALSE
        /\ subscriptions[u].preferences.saleAlerts = TRUE
        /\ Len(subscriptions[u].domains) > 0

\* C14 (as claimed): setReportInterval(u, i) with i not one of '10min',
\* '30min', '12h', '1day' returns a failure and leaves the stored interval,
\* the timers and everything else unchanged.
C14_InvalidIntervalRejected ==
    \A u \in Users, i \in IntervalArgs \ ReportIntervalKeys :
        LET r == setReportInterval(Engine, u, i)
        IN  /\ ~r.result.success
            /\ r.state = Engine

\* C15 (as claimed): for an existing user u and a valid interval i,
\* setReportInterval(u, i) succeeds, stores i, and leaves u with a freshly
\* created timer whose period is reportIntervals[i].
C15_ValidIntervalRearms ==
    \A u \in DOMAIN subscriptions, i \in IntervalArgs \cap ReportIntervalKeys :
        LET r == setReportInterval(Engine, u, i)
        IN  /\ r.result.success
            /\ getUserSubscriptions(r.state, u).preferences.reportInterval = i
            /\ u \in DOMAIN r.state.reportTimers
            /\ r.state.reportTimers[u].delay = reportIntervals(i)
            /\ r.timerCalls # << >>
            /\ r.timerCalls[Len(r.timerCalls)] =
                  <<"setInterval", r.state.reportTimers[u]>>

\* C15 (amended): for an existing user u and a valid interval i,
\* setReportInterval(u, i) succeeds and stores i; the user's previous timer,
\* if any, is cancelled; if the user's periodicReports is true a new timer
\* with period reportIntervals[i] is then created and stored, also when i is
\* the interval already stored; if periodicReports is false no timer is
\* created and the user is left without one.
C15_ValidIntervalRearmsWhenEnabled ==
    \A u \in DOMAIN subscriptions, i \in IntervalArgs \cap ReportIntervalKeys :
        LET r == setReportInterval(Engine, u, i)
            had == u \in DOMAIN reportTimers
            enabled == subscriptions[u].preferences.periodicReports
            fresh == [kind |-> "report", userId |-> u, delay |-> reportIntervals(i)]
        IN  /\ r.result.success
            /\ getUserSubscriptions(r.state, u).preferences.reportInterval = i
            /\ r.timerCalls =
                  (IF had THEN << <<"clearInterval", reportTimers[u]>> >> ELSE << >>)
                  \o (IF enabled THEN << <<"setInterval", fresh>> >> ELSE << >>)
            /\ IF enabled
               THEN /\ u \in DOMAIN r.state.reportTimers
                    /\ r.state.reportTimers[u] = fresh
                    /\ LiveTimers(r.state, "report", u) =
                          LiveTimers(Engine, "report", u) + (IF had THEN 0 ELSE 1)
               ELSE /\ u \notin DOMAIN r.state.reportTimers
                    /\ LiveTimers(r.state, "report", u) =
                          LiveTimers(Engine, "report", u) - (IF had THEN 1 ELSE 0)

\* C15 witness: a user with reports on already has '10min' stored and a live
\* 600000 ms timer, and setting '10min' again cancels that timer and creates
\* a new one.
C15_Witness ==
    \E u \in DOMAIN subscriptions :
        /\ subscriptions[u].preferences.reportInterval = "10min"
        /\ subscriptions[u].preferences.periodicReports = TRUE
        /\ u \in DOMAIN reportTimers
        /\ reportTimers[u].delay = 600000
        /\ Len(setReportInterval(Engine, u, "10min").timerCalls) = 2

\* C16 (as claimed): for an existing user u, togglePeriodicReports(u, false)
\* sets periodicReports to false, cancels u's timer and removes its handle;
\* togglePeriodicReports(u, true) sets it to true and leaves exactly one live
\* timer for u at the currently stored cadence; neither changes u's domain
\* set, u's reportInterval or the watch index.
C16_ToggleSetsFlagAndTimer ==
    \A u \in DOMAIN subscriptions :
        LET off == togglePeriodicReports(Engine, u, FALSE)
            on == togglePeriodicReports(Engine, u, TRUE)
            stored == subscriptions[u].preferences.reportInterval
        IN  /\ off.result.success
            /\ off.state.subscriptions[u].preferences.periodicReports = FALSE
            /\ u \notin DOMAIN off.state.reportTimers
            /\ LiveTimers(off.state, "report", u) = 0
            /\ on.result.success
            /\ on.state.subscriptions[u].preferences.periodicReports = TRUE
            /\ u \in DOMAIN on.state.reportTimers
            /\ LiveTimers(on.state, "report", u) = 1
            /\ on.state.reportTimers[u].delay = reportIntervals(stored)
            /\ \A r \in {off, on} :
                  /\ r.state.subscriptions[u].domains = subscriptions[u].domains
                  /\ r.state.subscriptions[u].preferences.reportInterval = stored
                  /\ r.state.domainWatchers = domainWatchers

\* C17 (as claimed): for a user with no record, setReportInterval(u, i) and
\* togglePeriodicReports(u, e) fail with the "no active subscriptions"
\* message and create neither a record nor a timer.
C17_UnknownUserNoActiveSubscriptions ==
    \A u \in Users :
        u \notin DOMAIN subscriptions =>
            /\ \A i \in IntervalArgs :
                  LET r == setReportInterval(Engine, u, i)
                  IN  /\ ~r.result.success
                      /\ r.result.message = NoActiveSubscriptions
                      /\ r.state = Engine
            /\ \A e \in BOOLEAN :
                  LET r == togglePeriodicReports(Engine, u, e)
                  IN  /\ ~r.result.success
                      /\ r.result.message = NoActiveSubscriptions
                      /\ r.state = Engine

\* C17 (amended): for a user with no record, togglePeriodicReports(u, e)
\* fails with the "no active subscriptions" message, and so does
\* setReportInterval(u, i) when i passes the validity test; when i does not
\* pass it, setReportInterval fails with the invalid-interval message
\* instead.  None of these calls creates a record or a timer.
C17_UnknownUserFails ==
    \A u \in Users :
        u \notin DOMAIN subscriptions =>
            /\ \A i \in IntervalArgs :
                  LET r == setReportInterval(Engine, u, i)
                  IN  /\ ~r.result.success
                      /\ r.result.message =
                            IF HasReportInterval(i) THEN NoActiveSubscriptions
                            ELSE InvalidReportInterval
                      /\ r.state = Engine
                      /\ r.timerCalls = << >>
            /\ \A e \in BOOLEAN :
                  LET r == togglePeriodicReports(Engine, u, e)
                  IN  /\ ~r.result.success
                      /\ r.result.message = NoActiveSubscriptions
                      /\ r.state = Engine
                      /\ r.timerCalls = << >>

\* C17 witness: one user has a record and a report timer, the other has
\* none and is refused with either message.
C17_Witness ==
    \E u, v \in Users :
        /\ u \notin DOMAIN subscriptions
        /\ v \in DOMAIN reportTimers
        /\ setReportInterval(Engine, u, "10min").result.message = NoActiveSubscriptions
        /\ setReportInterval(Engine, u, "45min").result.message = InvalidReportInterval
        /\ ~togglePeriodicReports(Engine, u, TRUE).result.success

\* C19: after every successful subscribe, also one that follows an explicit
\* stopEventMonitoring, the monitoring flag is true and exactly one global
\* event timer is armed; subscribing while monitoring is already on creates
\* no second global timer.
C19_SubscribeArmsMonitoring ==
    \A u \in Users, d \in Domains, p \in PrefOverrides :
        LET r == subscribe(Engine, u, d, p)
        IN  r.result.success =>
              /\ r.state.isMonitoring
              /\ r.state.monitoringInterval =
                    [kind |-> "event", userId |-> 0, delay |-> 30000]
              /\ LiveTimers(r.state, "event", 0) = 1
              /\ CopiesIn(r.state.monitoringInterval, r.state.timers) = 1
              /\ isMonitoring =>
                    \A i \in 1..Len(r.timerCalls) : r.timerCalls[i][2].kind # "event"

\* C19 witness: monitoring was stopped while a.com is still watched, no
\* event timer is armed, and the next subscribe arms one.
C19_Witness ==
    /\ ~isMonitoring
    /\ monitoringInterval = NoTimer
    /\ LiveTimers(Engine, "event", 0) = 0
    /\ Watches(Engine, 42, "a.com")
    /\ LiveTimers(subscribe(Engine, 7, "a.com", EmptyObject).state, "event", 0) = 1

(***************************************************************************)
(* Reads, monitoring and ticks                                             *)
(***************************************************************************)
\* C12: getStats and getUserSubscriptions are pure reads.  Called in any
\* reachable state, also between the steps of ticks and report fires in
\* flight and for users without a record, they leave subscriptions, the watch index, the report
\* timers and the monitoring flag as they are, getUserSubscriptions creates
\* no record, and getStats returns the number of records, the number of
\* watched domains, the monitoring flag and the number of live report timers.
C12_PureReads ==
    /\ \A u \in Users :
          LET r == getUserSubscriptionsCall(Engine, u)
          IN  /\ r.state = Engine
              /\ DOMAIN r.state.subscriptions = DOMAIN subscriptions
    /\ LET r == getStatsCall(Engine)
       IN  /\ r.state = Engine
           /\ r.result.totalUsers =
                 Cardinality({u \in Users : u \in DOMAIN subscriptions})
           /\ r.result.totalDomains =
                 Cardinality({d \in Domains : WatchersOf(Engine, d) # {}})
           /\ r.result.isMonitoring = isMonitoring
           /\ r.result.activeReportTimers =
                 Cardinality({u \in Users : LiveTimers(Engine, "report", u) > 0})
           /\ \A u \in Users : LiveTimers(Engine, "report", u) <= 1

\* C12 witness: a tick is suspended on a provider call for b.com after it has
\* finished a.com, a report fire of user 42 is suspended on a provider call
\* too, user 7 has no record, and the reads answer 1 user, 2 domains,
\* monitoring on, 1 report timer.
C12_Witness ==
    /\ 7 \notin DOMAIN subscriptions
    /\ \E i \in DOMAIN ticks :
          /\ ticks[i].pc \in FetchStages
          /\ ticks[i].domain = "b.com"
          /\ Len(ticks[i].results) = 1
    /\ \E i \in DOMAIN reports :
          /\ reports[i].userId = 42
          /\ reports[i].pc \in FetchStages
    /\ getStatsCall(Engine).result =
          [ totalUsers |-> 1, totalDomains |-> 2,
            isMonitoring |-> TRUE, activeReportTimers |-> 1 ]
    /\ getUserSubscriptionsCall(Engine, 7).result.domains = << >>

\* C18: the monitoring flag is Stopped initially and is only ever turned
\* from Running to Stopped by a stopEventMonitoring call: no unsubscribe,
\* updatePreferences, setReportInterval, togglePeriodicReports, read, fire
\* of the event timer or of a report timer, provider answer, provider
\* failure or alert turns it off, also when no domain is watched any more.
C18_OnlyStopTurnsMonitoringOff ==
    /\ ~isMonitoring
    /\ [][ /\ isMonitoring' \in BOOLEAN
           /\ (isMonitoring /\ ~isMonitoring') =>
                 /\ calls' = calls + 1
                 /\ subscriptions' = stopEventMonitoring(Engine).subscriptions
                 /\ domainWatchers' = stopEventMonitoring(Engine).domainWatchers
                 /\ monitoringInterval' = stopEventMonitoring(Engine).monitoringInterval
                 /\ reportTimers' = stopEventMonitoring(Engine).reportTimers
                 /\ timers' = stopEventMonitoring(Engine).timers
                 /\ ticks' = ticks
                 /\ reports' = reports ]_vars

\* C18 witness: monitoring is still on although no domain is watched any
\* more, a user has switched periodic reports off and a tick has ended with
\* a provider failure.
C18_Witness ==
    /\ isMonitoring
    /\ Len(domainWatchers) = 0
    /\ \E u \in DOMAIN subscriptions :
          /\ ~subscriptions[u].preferences.periodicReports
          /\ u \notin DOMAIN reportTimers
    /\ \E i \in DOMAIN ticks :
          /\ ticks[i].pc = "done"
          /\ \E j \in 1..Len(ticks[i].results) : ticks[i].results[j].outcome = "threw"

\* the tick i finishes checkDomainEvents for a domain in this step
FinishesDomain(i) ==
    /\ i \in DOMAIN ticks
    /\ i \in DOMAIN ticks'
    /\ Len(ticks'[i].results) = Len(ticks[i].results) + 1

\* C20: within one tick, a provider call that throws for a domain does not
\* end the tick: checkDomainEvents returns and the tick, once resumed, goes
\* on to the next entry of the watch index, so
\* when it completes every watched domain has been fetched; and when it
\* finishes a domain with at least one event, every watcher of that domain
\* has been sent an alert by this tick, whatever failed before or after.
C20_FailureIsolatedPerDomain ==
    [][ \A i \in DOMAIN ticks :
          /\ ( FinishesDomain(i)
               /\ ticks'[i].results[Len(ticks'[i].results)].outcome = "threw" )
             => ticks'[i].pc = "checkDomainEvents"
          /\ ( i \in DOMAIN ticks'
               /\ ticks[i].pc = "checkDomainEvents"
               /\ ticks'[i].pc # "checkDomainEvents"
               /\ ticks[i].results[Len(ticks[i].results)].outcome = "threw"
               /\ ticks[i].at < Len(domainWatchers) )
             => /\ ticks'[i].pc = "getDomainData"
                /\ ticks'[i].domain = domainWatchers[ticks[i].at + 1].key
          /\ ( FinishesDomain(i)
               /\ ticks'[i].results[Len(ticks'[i].results)].outcome = "alerted" )
             => \A u \in Range(userIdsOf(Engine, ticks[i])) :
                   \E a \in 1..Len(ticks'[i].alerts) :
                      /\ ticks'[i].alerts[a].userId = u
                      /\ ticks'[i].alerts[a].domain = ticks[i].domain
                      /\ ticks'[i].alerts[a].events = ticks[i].events
          /\ ( i \in DOMAIN ticks' /\ ticks[i].pc # "done" /\ ticks'[i].pc = "done" )
             => \A y \in MapKeys(domainWatchers') :
                   \E j \in 1..Len(ticks'[i].results) :
                      ticks'[i].results[j].domain = y ]_vars

\* C20 witness: a tick has completed in which the provider threw for the
\* first domain visited, and the second domain, visited afterwards, had an
\* event and both of its watchers were alerted.
C20_Witness ==
    \E i \in DOMAIN ticks :
        /\ ticks[i].pc = "done"
        /\ Len(ticks[i].results) = 2
        /\ ticks[i].results[1].outcome = "threw"
        /\ ticks[i].results[2].outcome = "alerted"
        /\ ticks[i].results[1].domain # ticks[i].results[2].domain
        /\ Len(ticks[i].alerts) = 2
        /\ {ticks[i].alerts[a].userId : a \in 1..2} = Users
        /\ \A a \in 1..2 : ticks[i].alerts[a].domain = ticks[i].results[2].domain

(***************************************************************************)
(* Records, shutdown and timer ownership                                   *)
(***************************************************************************)
\* C23: a subscription record, once created, is never removed: along every
\* execution the set of users with a record only grows, so totalUsers never
\* decreases, and an unsubscribe that empties a user's domain set leaves the
\* record and its preferences in place.
C23_RecordsNeverRemoved ==
    [][ /\ DOMAIN subscriptions \subseteq DOMAIN subscriptions'
        /\ Cardinality(DOMAIN subscriptions') >= getStats(Engine).totalUsers
        /\ \A u \in DOMAIN subscriptions :
              Len(subscriptions'[u].domains) < Len(subscriptions[u].domains)
                 => subscriptions'[u].preferences = subscriptions[u].preferences
        /\ \A u \in DOMAIN subscriptions, d \in Domains :
              LET r == unsubscribe(Engine, u, d)
              IN  /\ u \in DOMAIN r.state.subscriptions
                  /\ r.state.subscriptions[u].preferences =
                        subscriptions[u].preferences
                  /\ getStats(r.state).totalUsers = getStats(Engine).totalUsers
      ]_vars

\* C23 witness: a user has unsubscribed from everything and still has a
\* record that keeps the cadence set earlier, and is counted by getStats.
C23_Witness ==
    \E u \in DOMAIN subscriptions :
        /\ Len(subscriptions[u].domains) = 0
        /\ subscriptions[u].preferences.reportInterval = "12h"
        /\ getStats(Engine).totalUsers >= 1
        /\ Len(domainWatchers) = 0

\* C24: shutdown cancels the global event timer and sets the monitoring flag
\* to false, and leaves every per-user report timer live and registered and
\* every subscription record and the watch index as they were.
C24_ShutdownStopsOnlyEventTimer ==
    LET S2 == shutdown(Engine)
    IN  /\ ~S2.isMonitoring
        /\ S2.monitoringInterval = NoTimer
        /\ LiveTimers(S2, "event", 0) = 0
        /\ S2.reportTimers = reportTimers
        /\ \A u \in Users :
              LiveTimers(S2, "report", u) = LiveTimers(Engine, "report", u)
        /\ \A u \in DOMAIN reportTimers : BagIn(reportTimers[u], S2.timers)
        /\ S2.subscriptions = subscriptions
        /\ S2.domainWatchers = domainWatchers

\* C24 witness: both users have a live report timer, monitoring is on, and
\* a shutdown leaves exactly the two report timers armed.
C24_Witness ==
    /\ isMonitoring
    /\ DOMAIN reportTimers = Users
    /\ BagCardinality(timers) = 3
    /\ BagCardinality(shutdown(Engine).timers) = 2
    /\ ~shutdown(Engine).isMonitoring

\* C25: in every reachable state each user has at most one live report
\* timer, and it is the one stored in reportTimers for that user: no armed
\* timer of the runtime is unknown to the service.
C25_OneReportTimerPerUser ==
    /\ \A u \in Users :
          /\ LiveTimers(Engine, "report", u) =
                IF u \in DOMAIN reportTimers THEN 1 ELSE 0
          /\ u \in DOMAIN reportTimers =>
                /\ reportTimers[u].kind = "report"
                /\ reportTimers[u].userId = u
                /\ CopiesIn(reportTimers[u], timers) = 1
    /\ \A h \in BagToSet(timers) :
          \/ h = monitoringInterval
          \/ \E u \in DOMAIN reportTimers : h = reportTimers[u]
    /\ \A u \in Users, d \in Domains, i \in IntervalArgs, e \in BOOLEAN :
          /\ LiveTimers(subscribe(Engine, u, d, EmptyObject).state, "report", u) <= 1
          /\ LiveTimers(setReportInterval(Engine, u, i).state, "report", u) <= 1
          /\ LiveTimers(togglePeriodicReports(Engine, u, e).state, "report", u) <= 1

\* C25 witness: a user's timer has been re-created several times (cadence
\* changed to '10min', reports toggled, subscribed again) and exactly one
\* timer, the stored one, is live for that user.
C25_Witness ==
    \E u \in DOMAIN reportTimers :
        /\ calls >= 4
        /\ subscriptions[u].preferences.reportInterval = "10min"
        /\ Len(subscriptions[u].domains) = 2
        /\ reportTimers[u].delay = 600000
        /\ LiveTimers(Engine, "report", u) = 1

(***************************************************************************)
(* One tick under interleaved subscribe and unsubscribe calls              *)
(***************************************************************************)
\* the domains on which the tick has so far started checkDomainEvents
VisitedDomains(t) ==
    {t.results[j].domain : j \in 1..Len(t.results)}
        \cup (IF t.pc \in FetchStages \cup {"sendEventAlert"} THEN {t.domain} ELSE {})

\* C27 (as claimed): a tick processes exactly the domains that were in the
\* watch index when it started: it never visits a domain that was not in the
\* index at its start, and when it completes it has visited every domain
\* that was.
C27_TickVisitsStartSnapshot ==
    \A i \in DOMAIN ticks :
        /\ VisitedDomains(ticks[i]) \subseteq Range(ticks[i].watched)
        /\ ticks[i].pc = "done" =>
              VisitedDomains(ticks[i]) = Range(ticks[i].watched)

\* C28 (as claimed): for each checkDomainEvents invocation of a tick that
\* detects at least one event, sendEventAlert is invoked exactly once for
\* every user in the domain's watcher set, all with the same event list; an
\* invocation that detects no event alerts nobody.
C28_AlertOncePerWatcher ==
    \A i \in DOMAIN ticks :
        LET t == ticks[i]
        IN  /\ \A a, b \in 1..Len(t.alerts) :
                  (t.alerts[a].visit = t.alerts[b].visit
                      /\ t.alerts[a].userId = t.alerts[b].userId) => a = b
            /\ \A a, b \in 1..Len(t.alerts) :
                  t.alerts[a].visit = t.alerts[b].visit =>
                      /\ t.alerts[a].events = t.alerts[b].events
                      /\ t.alerts[a].domain = t.alerts[b].domain
            /\ \A a \in 1..Len(t.alerts) : Len(t.alerts[a].events) > 0
            /\ \A j \in 1..Len(t.results) :
                  t.results[j].outcome \in {"quiet", "threw"} =>
                      \A a \in 1..Len(t.alerts) : t.alerts[a].visit # j

\* C30 (as claimed): within one tick the fetches for the watched domains are
\* issued together: while the tick waits for a provider answer for one
\* domain, the fetch for every other watched domain it has not finished has
\* been started as well.
C30_FetchesFanOut ==
    \A i \in DOMAIN ticks :
        ticks[i].pc \in FetchStages =>
            \A j \in 1..Len(domainWatchers) :
                j > ticks[i].at => domainWatchers[j].key = ticks[i].domain

(***************************************************************************)
(* Periodic reports                                                        *)
(***************************************************************************)
\* C21 (as claimed): when a report timer fires and the user's domain set is
\* empty, nothing is assembled and nothing is handed over; otherwise exactly
\* one report with one entry for each domain of the set read at the start of
\* the fire is handed to the notifier.
C21_ReportHandedToNotifier ==
    \A i \in DOMAIN reports :
        reports[i].pc = "done" =>
            IF Len(reports[i].domains) = 0
            THEN reports[i].sink = "none" /\ reports[i].entries = << >>
            ELSE /\ reports[i].sink = "notifier"
                 /\ Len(reports[i].entries) = Len(reports[i].domains)
                 /\ \A k \in 1..Len(reports[i].entries) :
                       reports[i].entries[k].domain = reports[i].domains[k]

\* the provider failed while the report r was fetching domain d
ThrownFor(r, d) == {j \in 1..Len(r.thrown) : r.thrown[j].domain = d}

\* C22: in a report, a domain whose provider call failed has an entry with
\* status 'Error', score 0 and the failure's message; every other domain has
\* an entry computed from the provider's data for that domain; the entries
\* follow the order of the domains requested, and a finished report has one
\* entry per domain requested.
C22_ReportEntryPerDomain ==
    \A i \in DOMAIN reports :
        LET r == reports[i]
        IN  /\ Len(r.entries) <= Len(r.domains)
            /\ r.pc = "done" => Len(r.entries) = Len(r.domains)
            /\ \A k \in 1..Len(r.entries) :
                  LET e == r.entries[k]
                      d == r.domains[k]
                  IN  /\ e.domain = d
                      /\ IF ThrownFor(r, d) # {}
                         THEN /\ e.status = "Error"
                              /\ e.score = 0
                              /\ \A j \in ThrownFor(r, d) :
                                    e.error = r.thrown[j].message
                         ELSE /\ e.status = IF feed[d].data = Null
                                            THEN "Inactive" ELSE "Active"
                              /\ e.activities = Len(feed[d].activities)
                              /\ e.listings = Len(feed[d].listings)
                              /\ e.offers = Len(feed[d].offers)
                              /\ e.score =
                                    (IF feed[d].data = Null THEN 0 ELSE 30)
                                    + (IF 5 * Len(feed[d].activities) < 30
                                       THEN 5 * Len(feed[d].activities) ELSE 30)
                                    + (IF feed[d].listings = << >> THEN 0 ELSE 20)
                                    + (IF feed[d].offers = << >> THEN 0 ELSE 20)
                              /\ e.error = ""

\* a finished report whose first domain failed and whose second domain got
\* an entry from its own data, which differs from the first domain's
C22_Witness ==
    \E i \in DOMAIN reports :
        /\ reports[i].pc = "done"
        /\ Len(reports[i].entries) = 2
        /\ reports[i].entries[1].status = "Error"
        /\ reports[i].entries[1].error \in FailureMessages
        /\ reports[i].entries[2].status = "Active"
        /\ reports[i].entries[2].score = 80
        /\ feed[reports[i].domains[1]] # feed[reports[i].domains[2]]

(***************************************************************************)
(* Recurring timers                                                        *)
(***************************************************************************)
\* the tick t met a provider failure
TickFailed(t) == \E j \in 1..Len(t.results) : t.results[j].outcome = "threw"

\* the provider holds at least one activity, listing or offer for d
HasItems(d) ==
    feed[d].activities # << >> \/ feed[d].listings # << >> \/ feed[d].offers # << >>

\* C26: after a tick in which provider calls threw, the event timer is still
\* armed and the monitoring flag still true; after a report fire in which a
\* provider call threw, the user's report timer is still registered and
\* armed; and a tick or fire that follows a failed one runs as usual: the
\* tick alerts on every domain it fetches without failure that has items,
\* the fire logs a report with one entry per domain.
C26_TimersSurviveFailures ==
    /\ \A i \in DOMAIN ticks :
          (ticks[i].pc = "done" /\ TickFailed(ticks[i])) =>
              /\ isMonitoring
              /\ monitoringInterval # NoTimer
              /\ BagIn(monitoringInterval, timers)
    /\ \A i \in DOMAIN reports :
          (reports[i].pc = "done" /\ reports[i].thrown # << >>) =>
              /\ reports[i].userId \in DOMAIN reportTimers
              /\ BagIn(reportTimers[reports[i].userId], timers)
    /\ \A i, j \in DOMAIN ticks :
          (i < j /\ TickFailed(ticks[i]) /\ ticks[j].pc = "done") =>
              \A k \in 1..Len(ticks[j].results) :
                  LET res == ticks[j].results[k]
                  IN  res.outcome # "threw" =>
                         res.outcome = IF HasItems(res.domain)
                                       THEN "alerted" ELSE "quiet"
    /\ \A i, j \in DOMAIN reports :
          (i < j /\ reports[i].thrown # << >> /\ reports[j].pc = "done"
                 /\ reports[j].domains # << >>) =>
              /\ reports[j].sink = "logger"
              /\ Len(reports[j].entries) = Len(reports[j].domains)

\* a tick in which every domain failed has finished, the event timer has
\* fired again and the second tick has alerted a watcher
C26_Witness ==
    /\ Len(ticks) = 2
    /\ ticks[1].pc = "done"
    /\ ticks[1].results # << >>
    /\ \A j \in 1..Len(ticks[1].results) : ticks[1].results[j].outcome = "threw"
    /\ ticks[1].alerts = << >>
    /\ ticks[2].pc = "done"
    /\ \E j \in 1..Len(ticks[2].results) : ticks[2].results[j].outcome = "alerted"
    /\ ticks[2].alerts # << >>
    /\ isMonitoring
    /\ BagIn(monitoringInterval, timers)

\* the position of an event type in the order ACTIVITY, LISTING, OFFER
TypeRank(type) ==
    CASE type = "ACTIVITY" -> 1 [] type = "LISTING" -> 2 [] type = "OFFER" -> 3

\* the provider's list for d an event of the given type is taken from
ListOf(d, type) ==
    CASE type = "ACTIVITY" -> feed[d].activities
      [] type = "LISTING" -> feed[d].listings
      [] type = "OFFER" -> feed[d].offers

\* events reports the first item of each non-empty list the provider holds
\* for d, and nothing else, in the order ACTIVITY, LISTING, OFFER
ReportsLatestItems(events, d) ==
    /\ Len(events) <= 3
    /\ \A a \in 1..Len(events) :
          /\ events[a].type \in {"ACTIVITY", "LISTING", "OFFER"}
          /\ ListOf(d, events[a].type) # << >>
          /\ events[a].data = Head(ListOf(d, events[a].type))
    /\ \A a, b \in 1..Len(events) :
          a < b => TypeRank(events[a].type) < TypeRank(events[b].type)
    /\ \A type \in {"ACTIVITY", "LISTING", "OFFER"} :
          ListOf(d, type) # << >> =>
              \E a \in 1..Len(events) : events[a].type = type

TickStartsBesideOthers ==
    /\ OverlapTimerFires
    /\ Len(ticks') = Len(ticks) + 1
    /\ \A i \in DOMAIN ticks : ticks'[i] = ticks[i]

\* a step in which the report timer of u starts a report and every earlier
\* report is left where it is
ReportStartsBesideOthers(u) ==
    /\ OverlapReportFires(u)
    /\ Len(reports') = Len(reports) + 1
    /\ reports'[Len(reports')].userId = u
    /\ \A i \in DOMAIN reports : reports'[i] = reports[i]

\* C31: callbacks of the same timer are not mutually excluded.  While a tick
\* is suspended on a provider call and monitoring is on, the event timer can
\* start the next tick, which leaves the suspended one where it is; and
\* while a report fire of a user is suspended on a provider call and that
\* user has periodic reports on, the user's report timer can start the next
\* report in the same way.
C31_SameTimerOverlaps ==
    /\ ( /\ \E i \in DOMAIN ticks : ticks[i].pc \in FetchStages
         /\ isMonitoring
         /\ calls + Len(ticks) + Len(reports) < MaxOverlapEvents )
       => ENABLED TickStartsBesideOthers
    /\ \A u \in Users :
          ( /\ \E i \in DOMAIN reports :
                  reports[i].userId = u /\ reports[i].pc \in FetchStages
            /\ subscriptions[u].preferences.periodicReports
            /\ calls + Len(ticks) + Len(reports) < MaxOverlapEvents )
          => ENABLED ReportStartsBesideOthers(u)

\* two ticks of the event timer are in flight at once and each is sending
\* an alert for the same domain to the same user, while two report fires of
\* that user are suspended on provider calls
C31_Witness ==
    /\ Len(ticks) = 2
    /\ ticks[1].pc = "sendEventAlert"
    /\ ticks[2].pc = "sendEventAlert"
    /\ ticks[1].domain = ticks[2].domain
    /\ ~ticks[1].detached
    /\ ~ticks[2].detached
    /\ ticks[1].upos = ticks[2].upos
    /\ Len(reports) = 2
    /\ reports[1].pc \in FetchStages
    /\ reports[2].pc \in FetchStages
    /\ reports[1].userId = reports[2].userId
    /\ reports[1].userId =
          MapValue(domainWatchers, ticks[1].domain)[ticks[1].upos]

(***************************************************************************)
(* Alerts and preferences                                                  *)
(***************************************************************************)
\* settings of the alert toggles and the score threshold
AlertPreferenceValues ==
    { [priceAlerts |-> TRUE, expirationAlerts |-> TRUE, saleAlerts |-> TRUE,
       transferAlerts |-> TRUE, scoreThreshold |-> 80],
      [priceAlerts |-> FALSE, expirationAlerts |-> FALSE, saleAlerts |-> FALSE,
       transferAlerts |-> FALSE, scoreThreshold |-> 0] }

\* the engine S with every user's alert toggles and score threshold set to v
WithAlertPreferences(S, v) ==
    [S EXCEPT !.subscriptions =
        [u \in DOMAIN S.subscriptions |->
            [S.subscriptions[u] EXCEPT !.preferences =
                [f \in DOMAIN S.subscriptions[u].preferences |->
                    IF f \in DOMAIN v THEN v[f]
                    ELSE S.subscriptions[u].preferences[f]]]]]

\* C32: alert dispatch does not depend on preferences.  In every state, the
\* next step of every tick (starting, a provider call returning or throwing,
\* an alert returning, resuming after a domain) gives the same tick, with the same alerts to the same
\* users, from the engine as it is and from the engine with all users'
\* alert toggles and score thresholds replaced.
C32_AlertsIgnorePreferences ==
    \A v \in AlertPreferenceValues :
        LET E2 == WithAlertPreferences(Engine, v)
        IN  /\ checkForEvents(E2) = checkForEvents(Engine)
            /\ \A i \in DOMAIN ticks :
                  /\ ticks[i].pc \in FetchStages =>
                        /\ \A value \in ProviderValues(ticks[i].pc) :
                              providerReturns(E2, ticks[i], value)
                                  = providerReturns(Engine, ticks[i], value)
                        /\ providerThrows(E2, ticks[i])
                              = providerThrows(Engine, ticks[i])
                  /\ ticks[i].pc = "sendEventAlert" =>
                        alertReturns(E2, ticks[i]) = alertReturns(Engine, ticks[i])
                  /\ ticks[i].pc = "checkDomainEvents" =>
                        domainReturns(E2, ticks[i]) = domainReturns(Engine, ticks[i])

\* a tick is about to alert the second watcher of a domain, after the
\* first, and that second watcher has turned price alerts off
C32_Witness ==
    \E i \in DOMAIN ticks :
        /\ ticks[i].pc = "sendEventAlert"
        /\ ticks[i].upos = 1
        /\ Len(userIdsOf(Engine, ticks[i])) = 2
        /\ ~subscriptions[userIdsOf(Engine, ticks[i])[2]].preferences.priceAlerts
        /\ subscriptions[userIdsOf(Engine, ticks[i])[1]].preferences.priceAlerts

(***************************************************************************)
(* The quick score of a report entry                                       *)
(***************************************************************************)
\* C33: the score of a report entry is 30 if the domain has data (else 0),
\* plus the smaller of 30 and five times the number of activities, plus 20
\* if there is a listing, plus 20 if there is an offer, capped at 100; it is
\* an integer in 0..100; an 'Inactive' entry scores at most 70; and one more
\* activity, listing or offer never lowers the score.
C33_QuickScore ==
    \A i \in DOMAIN reports :
        \A k \in 1..Len(reports[i].entries) :
            LET e == reports[i].entries[k]
                f == feed[e.domain]
                na == Len(f.activities)
                sum == (IF f.data = Null THEN 0 ELSE 30)
                       + (IF 5 * na < 30 THEN 5 * na ELSE 30)
                       + (IF Len(f.listings) >= 1 THEN 20 ELSE 0)
                       + (IF Len(f.offers) >= 1 THEN 20 ELSE 0)
            IN  /\ e.score = IF sum > 100 THEN 100 ELSE sum
                /\ e.score \in 0..100
                /\ e.status = "Inactive" => e.score <= 70
                /\ e.score <= calculateQuickScore(f.data,
                                  Append(f.activities, "activity"),
                                  f.listings, f.offers)
                /\ e.score <= calculateQuickScore(f.data, f.activities,
                                  Append(f.listings, "listing"), f.offers)
                /\ e.score <= calculateQuickScore(f.data, f.activities,
                                  f.listings, Append(f.offers, "offer"))

\* a report entry for a domain with data and seven activities, more than
\* the six that earn points, and nothing else: it scores 60
C33_Witness ==
    \E i \in DOMAIN reports :
        /\ reports[i].pc = "done"
        /\ Len(reports[i].entries) = 1
        /\ reports[i].entries[1].activities = 7
        /\ reports[i].entries[1].listings = 0
        /\ reports[i].entries[1].offers = 0
        /\ reports[i].entries[1].status = "Active"
        /\ reports[i].entries[1].score = 60

(***************************************************************************)
(* The monitoring flag and the event timer                                 *)
(***************************************************************************)
\* C34: in every reachable state the monitoring flag is true exactly when
\* one event timer is armed, and false exactly when none is; a second
\* startEventMonitoring arms no second timer, and a second
\* stopEventMonitoring changes nothing and clears nothing.
C34_FlagMatchesEventTimer ==
    LET started == startEventMonitoring(Engine)
        stopped == stopEventMonitoring(Engine)
    IN  /\ LiveTimers(Engine, "event", 0) = IF isMonitoring THEN 1 ELSE 0
        /\ isMonitoring <=> monitoringInterval # NoTimer
        /\ isMonitoring => BagIn(monitoringInterval, timers)
        /\ LiveTimers(started, "event", 0) = 1
        /\ startEventMonitoring([started EXCEPT !.timerCalls = << >>]) =
              [started EXCEPT !.timerCalls = << >>]
        /\ LiveTimers(stopped, "event", 0) = 0
        /\ ~stopped.isMonitoring
        /\ stopEventMonitoring([stopped EXCEPT !.timerCalls = << >>]) =
              [stopped EXCEPT !.timerCalls = << >>]

\* monitoring has been stopped while a report timer is still armed and a
\* domain is still watched: the flag is false and no event timer is armed
C34_Witness ==
    /\ ~isMonitoring
    /\ monitoringInterval = NoTimer
    /\ LiveTimers(Engine, "event", 0) = 0
    /\ domainWatchers # << >>
    /\ \E u \in Users : u \in DOMAIN reportTimers /\ BagIn(reportTimers[u], timers)
    /\ startEventMonitoring(Engine).isMonitoring

(***************************************************************************)
(* A tick and the calls interleaved with it                                *)
(***************************************************************************)
\* C35: no alert is sent to a non-watcher.  Whenever a tick invokes
\* sendEventAlert for user u and domain d, d is in the domain set of u's
\* record at that moment, whatever unsubscribe and subscribe calls ran while
\* the tick was suspended.
C35_AlertsOnlyWatchers ==
    [][ \A i \in DOMAIN ticks :
          ( i \in DOMAIN ticks'
            /\ Len(ticks'[i].alerts) = Len(ticks[i].alerts) + 1 )
          => LET a == ticks'[i].alerts[Len(ticks'[i].alerts)]
             IN  /\ a.userId \in DOMAIN subscriptions'
                 /\ SetHas(subscriptions'[a.userId].domains, a.domain)
                 /\ a.domain = ticks[i].domain ]_vars

\* the last watcher of the tick's domain unsubscribed while the tick was
\* waiting for an alert to return, another user has subscribed to the
\* domain since, and the tick has gone on without alerting anyone else
C35_Witness ==
    \E i \in DOMAIN ticks :
        /\ Len(ticks[i].results) >= 1
        /\ ticks[i].results[1].outcome = "alerted"
        /\ Cardinality({a \in 1..Len(ticks[i].alerts) : ticks[i].alerts[a].visit = 1}) = 1
        /\ LET d == ticks[i].results[1].domain
               u == ticks[i].alerts[1].userId
           IN  /\ MapHas(domainWatchers, d)
               /\ ~Subscribed(Engine, u, d)
               /\ \E v \in Users : v # u /\ Subscribed(Engine, v, d)

\* C36 (as claimed): within one tick each domain is fetched and alerted on
\* at most once: no domain has two checkDomainEvents invocations in the same
\* tick, finished or under way, and no user is alerted twice on a domain.
C36_DomainOncePerTick ==
    \A i \in DOMAIN ticks :
        LET t == ticks[i]
        IN  /\ \A j, k \in 1..Len(t.results) :
                  t.results[j].domain = t.results[k].domain => j = k
            /\ t.pc \in FetchStages \cup {"sendEventAlert"} =>
                  \A j \in 1..Len(t.results) : t.results[j].domain # t.domain

\* C37 (as claimed): every tick terminates.  If every provider call and
\* every alert send returns or throws, a tick that has started eventually
\* completes, whatever subscribe and unsubscribe calls are interleaved.
C37_TickTerminates ==
    (ticks # << >>) ~> (ticks # << >> /\ ticks[1].pc = "done")

(***************************************************************************)
(* Stopping                                                                *)
(***************************************************************************)
\* C38 (as claimed): while the monitoring flag is false no tick begins and
\* no event alert is dispatched, not even by a tick that was suspended on a
\* provider call when stopEventMonitoring was called.
C38_NothingWhileStopped ==
    [][ \A i \in DOMAIN ticks' :
          /\ i \notin DOMAIN ticks => isMonitoring
          /\ ( i \in DOMAIN ticks
               /\ Len(ticks'[i].alerts) > Len(ticks[i].alerts) )
             => isMonitoring' ]_vars

\* C38 (amended): after stopEventMonitoring no tick begins until monitoring
\* is started again: a tick begins only while the monitoring flag is true
\* and the event timer is armed.  A tick that was in flight when monitoring
\* was stopped runs on and may still dispatch alerts.
C38_NoTickBeginsWhileStopped ==
    [][ \A i \in DOMAIN ticks' :
          i \notin DOMAIN ticks =>
              isMonitoring /\ BagIn(monitoringInterval, timers) ]_vars

\* monitoring has been stopped while a tick is suspended on a provider call
\* for a watched domain, and the behaviour is followed further
C38_Witness ==
    /\ ~isMonitoring
    /\ monitoringInterval = NoTimer
    /\ calls + Len(ticks) + Len(reports) < MaxTickEvents
    /\ \E i \in DOMAIN ticks :
          /\ ticks[i].pc \in FetchStages
          /\ MapHas(domainWatchers, ticks[i].domain)

(***************************************************************************)
(* Periodic reports and the periodicReports flag                           *)
(***************************************************************************)
\* C39 (as claimed): no periodic report is produced for a user while that
\* user's periodicReports flag is false: a step that emits a report of a
\* user is taken only while the user's flag is true, also when the report's
\* fire was in flight when the flag was set to false.
C39_NoReportWhileOff ==
    [][ \A i \in DOMAIN reports :
          ( /\ i \in DOMAIN reports'
            /\ reports[i].sink # "logger"
            /\ reports'[i].sink = "logger" )
          => subscriptions[reports[i].userId].preferences.periodicReports ]_vars

(***************************************************************************)
(* Liveness of reports                                                     *)
(***************************************************************************)
\* u has periodic reports on and at least one domain
WantsReports(u) ==
    /\ u \in DOMAIN subscriptions
    /\ subscriptions[u].preferences.periodicReports
    /\ subscriptions[u].domains # << >>

\* a report of u has been assembled and emitted
ReportProduced(u) ==
    \E i \in DOMAIN reports :
        /\ reports[i].userId = u
        /\ reports[i].pc = "done"
        /\ reports[i].sink = "logger"

\* C40: when timers fire and the provider answers under weak fairness, a
\* user who from some point on always has periodic reports on and a
\* non-empty domain set eventually has a report produced, even if the user
\* keeps calling subscribe or setReportInterval.
C40_ReportEventually ==
    \A u \in Users : <>[]WantsReports(u) => <>ReportProduced(u)

====
